---- MODULE Spec2Model ----
(***************************************************************************)
(* Perun frame-relay pipeline: the shared-memory handoff between the core  *)
(* (perun-core run) and the relay (perun-server ShmHost), the frame        *)
(* processor, the client-side reconstruction and the broadcast bus.        *)
(***************************************************************************)
EXTENDS Integers, Sequences, FiniteSets, TLC

(***************************************************************************)
(* Bounds of the model.                                                    *)
(***************************************************************************)
\* width*height*4 of the shared frame buffer, in cells
BufLen == 2
\* cell values the emulator writes are 0..MaxCell
MaxCell == 1
\* button words written by the event loop are 0..MaxButtons
MaxButtons == 1
\* ticks of the model's clock in one second
TicksPerSec == 2
\* the longest time between two process() calls, in ticks
MaxGap == 2
\* process() calls in a run with frames of every geometry
MaxCalls == 3
\* pixels of the largest frame
MaxPixels == 2
\* connections
MaxClients == 2
\* config.broadcast_buffer
BusCap == 1
\* messages sent on the bus in a run
MaxPub == 3
\* capacity of the event channel (mpsc::channel(100) in the server)
MaxEvents == 1
\* InputEvents followed on their way to the region
MaxInputs == 2
\* frames the polling thread publishes while connections are set up
MaxFrames == 1

\* Calls per keyframe window of spec section 8
KeyframeWindow == 60

(***************************************************************************)
(* ShmState status values (perun_shm::ShmState).                           *)
(***************************************************************************)
STATUS_IDLE == 0
STATUS_CORE_WRITING == 1
STATUS_FRAME_READY == 2
STATUS_SERVER_READING == 3

VARIABLES
    \* ---- the shared region (ShmState)
    status_flag,      \* AtomicU32
    input_flags,      \* AtomicU32
    frame_buffer,     \* frame_buffer[..buffer_len]
    \* ---- the core process (perun-core run)
    core_pc,          \* position in run
    core_input,       \* local `input`
    core_status,      \* local `status`
    core_error,       \* the kind of the error the last failed update returned
    core_cell,        \* next cell core.update writes
    \* ---- the relay process (ShmHost + SHM polling thread)
    relay_pc,         \* position in the polling loop / read_frame_into
    relay_status,     \* local `status` of read_frame_into
    relay_cell,       \* next cell copy_from_slice copies
    buffer,           \* the poller's `buffer: Vec<u8>`
    \* ---- history (not program state)
    last_store,       \* the last store into status_flag: who, old value, new value
    published,        \* frame_buffer as it was at the last store of FRAME_READY
    taken,            \* `published` as it was when the relay stored SERVER_READING
    unread,           \* frames published less frames read_frame_into returned
    \* ---- FrameProcessor (owned by the SHM polling thread)
    last_frame,       \* Vec<u8>
    frame_count,      \* u64
    age,              \* last_keyframe.elapsed(), in ticks
    gap,              \* ticks since the previous process() call (or construction)
    \* ---- ClientInner of one viewer
    client,           \* width, height, image_data_buffer, previous_frame_buffer
    \* ---- history (not program state)
    last_call,        \* what the last process() call saw and emitted
    delta_run,        \* consecutive deltas emitted since the last keyframe
    lost_any,         \* the viewer has missed a packet at some time
    view,             \* "live", "lost" (last packet missed) or "recovering"
    stale,            \* ticks since the last packet the viewer missed
    \* ---- the broadcast bus, the event channel and the sessions
    bus_log,          \* every BroadcastMessage sent on broadcast_tx, in order
    events,           \* ServerEvents queued in the mpsc channel
    poller_pc,        \* position of the SHM polling thread
    loop_pc,          \* position of the event loop
    loop_event,       \* the event the event loop is handling
    sess,             \* per connection: session state, cursor, bytes written
    server            \* Server: next_client_id, clients, config.capabilities

shmVars == <<status_flag, input_flags, frame_buffer, core_pc, core_input,
             core_status, core_cell, relay_pc, relay_status, relay_cell,
             buffer, last_store, published, taken, core_error, unread>>

procVars == <<last_frame, frame_count, age, gap, client, last_call, delta_run,
              lost_any, view, stale>>

busVars == <<bus_log, events, poller_pc, loop_pc, loop_event, sess, server>>

vars == <<shmVars, procVars, busVars>>

Cells == 1..BufLen
CellVals == 0..MaxCell
ZeroFrame == [i \in Cells |-> 0]

\* The count of unread frames is kept within -MaxUnread..MaxUnread: below 0
\* a frame has been returned twice, above 1 one has been published over
\* another that was never returned.
MaxUnread == 2

\* A store into status_flag by `who`, remembered in last_store.
StoreStatus(who, v) ==
    /\ status_flag' = v
    /\ last_store' = [by |-> who, from |-> status_flag, to |-> v,
                      flip |-> 1 - last_store.flip]

RingSucc(s) == (s + 1) % 4

(***************************************************************************)
(* perun-core: run                                                         *)
(***************************************************************************)
\* Mutants of CoreSeesIdle: the core also claims a buffer the relay is reading,
\* or one whose frame the relay has not taken yet.
CoreSeesIdleOrReading(s) == s \in {STATUS_IDLE, STATUS_SERVER_READING}

CoreSeesIdleOrReady(s) == s \in {STATUS_IDLE, STATUS_FRAME_READY}

\* `if status == ShmState::STATUS_IDLE`
CoreSeesIdle(s) == s = STATUS_IDLE

\* Process start: arguments, C::new, open and map the region.
CoreLaunch ==
    /\ core_pc \in {"down", "exited"}
    /\ UNCHANGED <<procVars, busVars, core_error, unread>>
    /\ core_pc' = "init"
    /\ UNCHANGED <<status_flag, input_flags, frame_buffer, core_input,
                   core_status, core_cell, relay_pc, relay_status, relay_cell,
                   buffer, last_store, published, taken>>

\* "Initialize SHM state": geometry, then status_flag.store(STATUS_IDLE).
CoreInit ==
    /\ core_pc = "init"
    /\ UNCHANGED <<procVars, busVars, core_error, unread>>
    /\ StoreStatus("core", STATUS_IDLE)
    /\ core_pc' = "top"
    /\ UNCHANGED <<input_flags, frame_buffer, core_input, core_status,
                   core_cell, relay_pc, relay_status, relay_cell, buffer,
                   published, taken>>

\* `let input = state.input_flags.load(Relaxed)`
CoreReadInput ==
    /\ core_pc = "top"
    /\ UNCHANGED <<procVars, busVars, core_error, unread>>
    /\ core_input' = input_flags
    /\ core_pc' = "check"
    /\ UNCHANGED <<status_flag, input_flags, frame_buffer, core_status,
                   core_cell, relay_pc, relay_status, relay_cell, buffer,
                   last_store, published, taken>>

\* `let status = state.status_flag.load(Acquire)`
CoreLoadStatus ==
    /\ core_pc = "check"
    /\ UNCHANGED <<procVars, busVars, core_error, unread>>
    /\ core_status' = status_flag
    /\ core_pc' = "decide"
    /\ UNCHANGED <<status_flag, input_flags, frame_buffer, core_input,
                   core_cell, relay_pc, relay_status, relay_cell, buffer,
                   last_store, published, taken>>

\* status == IDLE: store CORE_WRITING and take the pixel slice.
CoreClaim ==
    /\ core_pc = "decide"
    /\ UNCHANGED <<procVars, busVars, core_error, unread>>
    /\ CoreSeesIdle(core_status)
    /\ StoreStatus("core", STATUS_CORE_WRITING)
    /\ core_cell' = 1
    /\ core_pc' = "write"
    /\ UNCHANGED <<input_flags, frame_buffer, core_input, core_status,
                   relay_pc, relay_status, relay_cell, buffer, published,
                   taken>>

\* core.update(input, pixels, ..) fills the slice, one cell at a time.
CoreUpdateWrite ==
    /\ core_pc = "write"
    /\ UNCHANGED <<procVars, busVars, core_error, unread>>
    /\ core_cell <= BufLen
    /\ \E v \in CellVals :
          frame_buffer' = [frame_buffer EXCEPT ![core_cell] = v]
    /\ core_cell' = core_cell + 1
    /\ UNCHANGED <<status_flag, input_flags, core_pc, core_input,
                   core_status, relay_pc, relay_status, relay_cell, buffer,
                   last_store, published, taken>>

\* The conditions a core's update can fail on. The trait returns
\* Result<(), Box<dyn Error>>: whether the failure was one the core could
\* go on after is known to the core alone.
ErrorKinds == {"recoverable", "fatal"}

\* What `if let Err(e) = core.update(..) { error!(..); break; }` does with an
\* error of this kind: it leaves the loop, whatever the kind.
UpdateErrBreaks(kind) == kind \in ErrorKinds

\* core.update returned Err: log and `break`; run returns, the process ends.
CoreUpdateErr ==
    /\ core_pc = "write"
    /\ UNCHANGED <<procVars, busVars, unread>>
    /\ \E kind \in ErrorKinds :
         /\ core_error' = kind
         /\ core_pc' = IF UpdateErrBreaks(kind) THEN "exited" ELSE "pace"
    /\ UNCHANGED <<status_flag, input_flags, frame_buffer, core_input,
                   core_status, core_cell, relay_pc, relay_status, relay_cell,
                   buffer, last_store, published, taken>>

\* core.update returned Ok: store FRAME_READY.
CorePublish ==
    /\ core_pc = "write"
    /\ UNCHANGED <<procVars, busVars, core_error>>
    /\ core_cell > BufLen
    /\ StoreStatus("core", STATUS_FRAME_READY)
    /\ published' = frame_buffer
    /\ unread' = IF unread < MaxUnread THEN unread + 1 ELSE unread
    /\ core_pc' = "pace"
    /\ UNCHANGED <<input_flags, frame_buffer, core_input, core_status,
                   core_cell, relay_pc, relay_status, relay_cell, buffer,
                   taken>>

\* status != IDLE: `std::thread::yield_now()`.
CoreSkip ==
    /\ core_pc = "decide"
    /\ UNCHANGED <<procVars, busVars, core_error, unread>>
    /\ ~CoreSeesIdle(core_status)
    /\ core_pc' = "pace"
    /\ UNCHANGED <<status_flag, input_flags, frame_buffer, core_input,
                   core_status, core_cell, relay_pc, relay_status, relay_cell,
                   buffer, last_store, published, taken>>

\* FPS throttling sleep and FPS log, then the next iteration.
CorePace ==
    /\ core_pc = "pace"
    /\ UNCHANGED <<procVars, busVars, core_error, unread>>
    /\ core_pc' = "top"
    /\ UNCHANGED <<status_flag, input_flags, frame_buffer, core_input,
                   core_status, core_cell, relay_pc, relay_status, relay_cell,
                   buffer, last_store, published, taken>>

(***************************************************************************)
(* perun-server: ShmHost and the SHM polling thread                        *)
(***************************************************************************)
\* Mutant of RelaySeesReady: the relay also takes a buffer the core holds.
RelaySeesReadyOrWriting(s) == s \in {STATUS_FRAME_READY, STATUS_CORE_WRITING}

\* `if status == ShmState::STATUS_FRAME_READY`
RelaySeesReady(s) == s = STATUS_FRAME_READY

\* Mutant of RelayDoneStatus: the relay hands the buffer back as FRAME_READY.
RelayDoneReady == STATUS_FRAME_READY

\* The value read_frame_into stores when the copy is done.
RelayDoneStatus == STATUS_IDLE

\* ShmHost::new: ptr::write of status_flag (IDLE) and input_flags (0); then the
\* polling thread is spawned.
RelayStart ==
    /\ relay_pc = "down"
    /\ UNCHANGED <<procVars, busVars, core_error, unread>>
    /\ StoreStatus("relay", STATUS_IDLE)
    /\ input_flags' = 0
    /\ relay_pc' = "poll"
    /\ UNCHANGED <<frame_buffer, core_pc, core_input, core_status, core_cell,
                   relay_status, relay_cell, buffer, published, taken>>

\* read_frame_into: `status_flag.load(Acquire)`
RelayLoad ==
    /\ relay_pc = "poll"
    /\ UNCHANGED <<procVars, busVars, core_error, unread>>
    /\ relay_status' = status_flag
    /\ relay_pc' = "decide"
    /\ UNCHANGED <<status_flag, input_flags, frame_buffer, core_pc,
                   core_input, core_status, core_cell, relay_cell, buffer,
                   last_store, published, taken>>

\* status == FRAME_READY: store SERVER_READING, resize the caller's buffer.
RelayMark ==
    /\ relay_pc = "decide"
    /\ UNCHANGED <<procVars, busVars, core_error, unread>>
    /\ RelaySeesReady(relay_status)
    /\ StoreStatus("relay", STATUS_SERVER_READING)
    /\ buffer' = IF Len(buffer) # BufLen
                 THEN [i \in Cells |-> IF i <= Len(buffer) THEN buffer[i] ELSE 0]
                 ELSE buffer
    /\ relay_cell' = 1
    /\ taken' = published
    /\ relay_pc' = "copy"
    /\ UNCHANGED <<input_flags, frame_buffer, core_pc, core_input,
                   core_status, core_cell, relay_status, published>>

\* buffer.copy_from_slice(src), one cell at a time.
RelayCopy ==
    /\ relay_pc = "copy"
    /\ UNCHANGED <<procVars, busVars, core_error, unread>>
    /\ relay_cell <= BufLen
    /\ buffer' = [buffer EXCEPT ![relay_cell] = frame_buffer[relay_cell]]
    /\ relay_cell' = relay_cell + 1
    /\ UNCHANGED <<status_flag, input_flags, frame_buffer, core_pc,
                   core_input, core_status, core_cell, relay_pc, relay_status,
                   last_store, published, taken>>

\* The relay process stops (killed, or the polling thread panics) after
\* read_frame_into stored SERVER_READING and before it stores IDLE. Nothing
\* runs on the way out: ShmHost has no Drop that touches status_flag.
RelayCrash ==
    /\ relay_pc = "copy"
    /\ UNCHANGED <<procVars, busVars, core_error, unread>>
    /\ relay_pc' = "crashed"
    /\ UNCHANGED <<status_flag, input_flags, frame_buffer, core_pc,
                   core_input, core_status, core_cell, relay_status,
                   relay_cell, buffer, last_store, published, taken>>

\* Copy done: store IDLE and return Some((width, height)).
RelayRelease ==
    /\ relay_pc = "copy"
    /\ UNCHANGED <<procVars, busVars, core_error>>
    /\ relay_cell > BufLen
    /\ StoreStatus("relay", RelayDoneStatus)
    /\ unread' = IF unread > -MaxUnread THEN unread - 1 ELSE unread
    /\ relay_pc' = "got"
    /\ UNCHANGED <<input_flags, frame_buffer, core_pc, core_input,
                   core_status, core_cell, relay_status, relay_cell, buffer,
                   published, taken>>

\* The poller processes and broadcasts the frame it got, then polls again.
RelayHandOn ==
    /\ relay_pc = "got"
    /\ UNCHANGED <<procVars, busVars, core_error, unread>>
    /\ relay_pc' = "poll"
    /\ UNCHANGED <<status_flag, input_flags, frame_buffer, core_pc,
                   core_input, core_status, core_cell, relay_status,
                   relay_cell, buffer, last_store, published, taken>>

\* read_frame_into returned None: sleep 500 us, poll again.
RelayIdle ==
    /\ relay_pc = "decide"
    /\ UNCHANGED <<procVars, busVars, core_error, unread>>
    /\ ~RelaySeesReady(relay_status)
    /\ relay_pc' = "poll"
    /\ UNCHANGED <<status_flag, input_flags, frame_buffer, core_pc,
                   core_input, core_status, core_cell, relay_status,
                   relay_cell, buffer, last_store, published, taken>>

\* ShmHost::write_inputs(buttons), called by the event loop on an InputEvent.
WriteInputs ==
    /\ relay_pc # "down"
    /\ UNCHANGED <<procVars, busVars, core_error, unread>>
    /\ \E buttons \in 0..MaxButtons : input_flags' = buttons
    /\ UNCHANGED <<status_flag, frame_buffer, core_pc, core_input,
                   core_status, core_cell, relay_pc, relay_status, relay_cell,
                   buffer, last_store, published, taken>>

(***************************************************************************)
(* Bytes and the codec.                                                    *)
(***************************************************************************)
Min(a, b) == IF a < b THEN a ELSE b

\* bit k (a power of two) of a byte
Bit(x, k) == (x \div k) % 2

\* u8 ^, & and |, bit by bit
Xor8(a, b) ==
    LET x(k) == k * ((Bit(a, k) + Bit(b, k)) % 2)
    IN  x(1) + x(2) + x(4) + x(8) + x(16) + x(32) + x(64) + x(128)

And8(a, b) ==
    LET x(k) == k * Bit(a, k) * Bit(b, k)
    IN  x(1) + x(2) + x(4) + x(8) + x(16) + x(32) + x(64) + x(128)

\* Mutant of Or8: the bits of the left operand are dropped.
Or8KeepsRight(a, b) == b

Or8(a, b) ==
    LET x(k) == k * (IF Bit(a, k) + Bit(b, k) > 0 THEN 1 ELSE 0)
    IN  x(1) + x(2) + x(4) + x(8) + x(16) + x(32) + x(64) + x(128)

\* Packet flags (perun_protocol::flags)
FLAG_DELTA == 1
FLAG_COMPRESS_1 == 2

\* PacketType::VideoFrame as u8
TYPE_VIDEO_FRAME == 1

\* put_u16 / to_be_bytes, put_u32
BE16(n) == <<(n \div 256) % 256, n % 256>>
BE32(n) == <<(n \div 16777216) % 256, (n \div 65536) % 256,
             (n \div 256) % 256, n % 256>>
LE32(n) == <<n % 256, (n \div 256) % 256, (n \div 65536) % 256,
             (n \div 16777216) % 256>>

\* The block codec behind lz4_flex::compress_prepend_size, as a run-length
\* coding: each maximal run of at most 255 equal bytes becomes <<count, byte>>.
RECURSIVE HeadRun(_, _)
HeadRun(s, n) ==
    IF n < Len(s) /\ n < 255 /\ s[n + 1] = s[1] THEN HeadRun(s, n + 1) ELSE n

RECURSIVE RunEncode(_)
RunEncode(s) ==
    IF s = <<>> THEN <<>>
    ELSE LET n == HeadRun(s, 1)
         IN  <<n, s[1]>> \o RunEncode(SubSeq(s, n + 1, Len(s)))

RECURSIVE RunDecode(_)
RunDecode(c) ==
    IF Len(c) < 2 THEN <<>>
    ELSE [i \in 1..c[1] |-> c[2]] \o RunDecode(SubSeq(c, 3, Len(c)))

\* lz4_flex::compress_prepend_size: the uncompressed length (u32, little
\* endian), then the block.
compress_prepend_size(s) == LE32(Len(s)) \o RunEncode(s)

\* lz4_flex::decompress_size_prepended
decompress_size_prepended(c) ==
    IF Len(c) < 4 THEN [ok |-> FALSE, data |-> <<>>]
    ELSE LET size == c[1] + 256 * c[2] + 65536 * c[3] + 16777216 * c[4]
             body == RunDecode(SubSeq(c, 5, Len(c)))
         IN  IF Len(body) = size THEN [ok |-> TRUE, data |-> body]
             ELSE [ok |-> FALSE, data |-> <<>>]

(***************************************************************************)
(* perun-server: FrameProcessor                                            *)
(***************************************************************************)
\* Duration::from_secs(1), in ticks
force_keyframe_interval == TicksPerSec

\* The largest value `age` takes in the model: a forced keyframe is due from
\* force_keyframe_interval on, and a call comes within MaxGap ticks.
AgeCap == force_keyframe_interval + MaxGap

\* Mutants of ForceKeyframe: forced one tick late; never forced.
ForceKeyframeLate(elapsed) == elapsed > force_keyframe_interval

ForceKeyframeNever(elapsed) == FALSE

\* `self.last_keyframe.elapsed() >= self.force_keyframe_interval`
ForceKeyframe(elapsed) == elapsed >= force_keyframe_interval

\* Mutant of DeltaWins: a tie goes to the delta.
DeltaWinsOrTies(compressed_delta, compressed_full) ==
    Len(compressed_delta) <= Len(compressed_full)

\* `compressed_delta.len() < compressed_full.len()`
DeltaWins(compressed_delta, compressed_full) ==
    Len(compressed_delta) < Len(compressed_full)

\* bytemuck::cast_slice / cast_slice_mut from u8 to u128 panic when the slice
\* does not start on a 16-byte boundary, whatever its length. The buffer of a
\* Vec<u8> that holds bytes comes from the allocator, on a 16-byte boundary;
\* a Vec without bytes (Vec::new(), vec![0u8; 0], an empty to_vec()) has no
\* buffer and points at address 1. `delta` has `len` bytes, and `current` and
\* `previous` at least as many, so the casts panic exactly when len is 0.
cast_slice_panics(current, previous) ==
    Min(Len(current), Len(previous)) = 0

\* Mutant of compute_delta_simd: the scalar tail after the 16-byte chunks is
\* left zero.
compute_delta_no_tail(current, previous) ==
    LET len == Min(Len(current), Len(previous))
        chunks == len \div 16
    IN  [i \in 1..len |->
            IF i <= chunks * 16 THEN Xor8(current[i], previous[i]) ELSE 0]

\* compute_delta_simd: u128 lanes over the first chunks*16 bytes (a lane XOR is
\* the XOR of its 16 bytes), then the scalar remainder.
compute_delta_simd(current, previous) ==
    LET len == Min(Len(current), Len(previous))
        chunks == len \div 16
        lane(i) == Xor8(current[i], previous[i])
        tail(i) == Xor8(current[i], previous[i])
    IN  [i \in 1..len |-> IF i <= chunks * 16 THEN lane(i) ELSE tail(i)]

\* FrameProcessor::process, with `elapsed` the value of last_keyframe.elapsed():
\* whether the call panicked in compute_delta_simd, else the packet and flags
\* returned.
process(lastf, elapsed, width, height, current_frame) ==
    LET force_keyframe == ForceKeyframe(elapsed)
        has_delta == ~force_keyframe /\ Len(lastf) = Len(current_frame)
        panicked == has_delta /\ cast_slice_panics(current_frame, lastf)
        compressed_full == compress_prepend_size(current_frame)
        compressed_delta ==
            IF has_delta
            THEN compress_prepend_size(compute_delta_simd(current_frame, lastf))
            ELSE <<>>
        used_delta == has_delta /\ DeltaWins(compressed_delta, compressed_full)
        flags == Or8(IF used_delta THEN Or8(0, FLAG_DELTA) ELSE 0,
                     FLAG_COMPRESS_1)
    IN  [panicked |-> panicked,
         packet |-> [width |-> width, height |-> height,
                     is_delta |-> used_delta, extra_flags |-> flags,
                     data |-> IF used_delta THEN compressed_delta
                              ELSE compressed_full],
         flags |-> flags]

\* Mutant of last_keyframe_elapsed: last_keyframe is set on every call.
last_keyframe_always_set(used_delta, elapsed) == 0

\* `if !used_delta { self.last_keyframe = Instant::now(); }`: what
\* last_keyframe.elapsed() is once the call has returned.
last_keyframe_elapsed(used_delta, elapsed) ==
    IF used_delta THEN elapsed ELSE 0

\* FrameProcessor::new
ProcessorNew ==
    /\ last_frame = <<>>
    /\ frame_count = 0
    /\ age = 0
    /\ gap = 0

(***************************************************************************)
(* The wire: write_task of handle_client, the client's onmessage.          *)
(***************************************************************************)
\* PacketHeader::serialize
HeaderSerialize(h) ==
    <<h.packet_type, h.flags>> \o BE16(h.sequence) \o BE32(h.length)

\* PacketHeader::deserialize (PacketType::try_from accepts 1..5)
HeaderDeserialize(data) ==
    IF Len(data) < 8 \/ data[1] \notin 1..5 THEN [ok |-> FALSE]
    ELSE [ok |-> TRUE, packet_type |-> data[1], flags |-> data[2],
          sequence |-> 256 * data[3] + data[4],
          length |-> 16777216 * data[5] + 65536 * data[6] + 256 * data[7]
                     + data[8]]

\* perun_protocol VideoFramePacket::serialize(false): width, height, data.
VideoSerialize(packet) ==
    BE16(packet.width) \o BE16(packet.height) \o packet.data

\* perun_protocol VideoFramePacket::deserialize(payload, flags): the data is
\* decompressed when the header declares compression.
VideoDeserialize(payload, flags) ==
    IF Len(payload) < 4 THEN [ok |-> FALSE]
    ELSE LET raw == SubSeq(payload, 5, Len(payload))
             dec == IF And8(flags, FLAG_COMPRESS_1) # 0
                    THEN decompress_size_prepended(raw)
                    ELSE [ok |-> TRUE, data |-> raw]
         IN  IF ~dec.ok THEN [ok |-> FALSE]
             ELSE [ok |-> TRUE,
                   width |-> 256 * payload[1] + payload[2],
                   height |-> 256 * payload[3] + payload[4],
                   is_delta |-> And8(flags, FLAG_DELTA) # 0,
                   data |-> dec.data]

\* write_task, BroadcastMessage::VideoFrame: header (flags = extra_flags,
\* sequence 0, length of the payload) then the payload.
WriteVideo(packet) ==
    LET payload == VideoSerialize(packet)
    IN  HeaderSerialize([packet_type |-> TYPE_VIDEO_FRAME,
                         flags |-> packet.extra_flags, sequence |-> 0,
                         length |-> Len(payload)]) \o payload

(***************************************************************************)
(* perun-client: ClientInner                                               *)
(***************************************************************************)
\* Mutant of Resize: the vector is cut but never extended.
ResizeCutOnly(v, size, fill) ==
    [i \in 1..Min(size, Len(v)) |-> v[i]]

\* Vec::resize(size, fill)
Resize(v, size, fill) ==
    [i \in 1..size |-> IF i <= Len(v) THEN v[i] ELSE fill]

\* Mutant of render_frame: the previous frame is refreshed only when the
\* packet was applied in full (a payload of the frame's size).
render_frame_stale_previous(c, frame) ==
    LET geom == c.width # frame.width \/ c.height # frame.height
        size == frame.width * frame.height * 4
        img0 == IF geom THEN Resize(c.image_data_buffer, size, 255)
                ELSE c.image_data_buffer
        prev0 == IF geom THEN Resize(c.previous_frame_buffer, size, 0)
                 ELSE c.previous_frame_buffer
        len == Min(Len(img0), Len(frame.data))
        img1 == IF frame.is_delta
                THEN [i \in 1..Len(img0) |->
                        IF i <= len THEN Xor8(prev0[i], frame.data[i])
                        ELSE img0[i]]
                ELSE IF Len(frame.data) = Len(img0) THEN frame.data ELSE img0
    IN  [width |-> frame.width, height |-> frame.height,
         image_data_buffer |-> img1,
         previous_frame_buffer |->
             IF Len(frame.data) = Len(img0) THEN img1 ELSE prev0]

\* ClientInner::render_frame
render_frame(c, frame) ==
    LET geom == c.width # frame.width \/ c.height # frame.height
        size == frame.width * frame.height * 4
        img0 == IF geom THEN Resize(c.image_data_buffer, size, 255)
                ELSE c.image_data_buffer
        prev0 == IF geom THEN Resize(c.previous_frame_buffer, size, 0)
                 ELSE c.previous_frame_buffer
        len == Min(Len(img0), Len(frame.data))
        img1 == IF frame.is_delta
                THEN [i \in 1..Len(img0) |->
                        IF i <= len THEN Xor8(prev0[i], frame.data[i])
                        ELSE img0[i]]
                ELSE IF Len(frame.data) = Len(img0) THEN frame.data ELSE img0
    IN  [width |-> frame.width, height |-> frame.height,
         image_data_buffer |-> img1, previous_frame_buffer |-> img1]

\* The onmessage callback: an "OK.." message is the handshake reply; a video
\* packet that parses is rendered; anything else leaves the buffers alone.
OnMessage(c, vec) ==
    IF Len(vec) >= 2 /\ vec[1] = 79 /\ vec[2] = 75 THEN c
    ELSE LET header == HeaderDeserialize(vec)
         IN  IF ~header.ok \/ header.packet_type # TYPE_VIDEO_FRAME THEN c
             ELSE LET frame == VideoDeserialize(SubSeq(vec, 9, Len(vec)),
                                                header.flags)
                  IN  IF frame.ok THEN render_frame(c, frame) ELSE c

\* PerunClient::new
ClientNew ==
    client = [width |-> 0, height |-> 0, image_data_buffer |-> <<>>,
              previous_frame_buffer |-> <<>>]

(***************************************************************************)
(* Frames fed to the processor, and the processor-to-viewer pipeline.      *)
(***************************************************************************)
\* RGBA pixels the core draws with
Palette == {<<0, 0, 0, 255>>, <<255, 128, 1, 255>>}

\* A geometry wider than one 16-byte lane: four pixels in the lane, one in the
\* scalar tail of compute_delta_simd
WideGeom == <<5, 1>>

\* Geometries: the empty one, those of at most MaxPixels pixels, the wide one
Geoms == {<<0, 0>>, WideGeom} \cup
         {g \in (1..MaxPixels) \X (1..MaxPixels) : g[1] * g[2] <= MaxPixels}

RECURSIVE Flatten(_)
Flatten(pixels) ==
    IF pixels = <<>> THEN <<>> ELSE Head(pixels) \o Flatten(Tail(pixels))

\* The frames of width*height*4 bytes (what read_frame_into returns): every
\* colouring of a small frame; of a wide one, those of one colour up to the
\* last pixel.
FramesOf(width, height) ==
    IF <<width, height>> = WideGeom /\ width * height > MaxPixels
    THEN {Flatten([i \in 1..(width * height) |->
                     IF i < width * height THEN p ELSE q]) :
            p \in Palette, q \in Palette}
    ELSE {Flatten(px) : px \in [1..(width * height) -> Palette]}

\* No packet: what a call that has not returned leaves to look at
NoPacket ==
    [width |-> 0, height |-> 0, is_delta |-> FALSE, extra_flags |-> 0,
     data |-> <<>>]

ProcNew ==
    /\ ProcessorNew
    /\ ClientNew
    /\ last_call = [n |-> 0, panicked |-> FALSE, elapsed |-> 0, gap |-> 0,
                    is_delta |-> FALSE, flags |-> 0, delta_smaller |-> FALSE,
                    frame |-> <<>>, previous |-> <<>>, count |-> 0,
                    packet |-> NoPacket]
    /\ delta_run = 0
    /\ lost_any = FALSE
    /\ view = "live"
    /\ stale = 0

\* Would the delta of `frame` against `lastf` compress smaller than `frame`?
DeltaSmaller(lastf, frame) ==
    /\ Len(lastf) = Len(frame)
    /\ Len(compress_prepend_size(compute_delta_simd(frame, lastf)))
         < Len(compress_prepend_size(frame))

\* One iteration of the SHM polling thread on a frame from `geoms`: the
\* process() call, the packet published and written by the viewer's
\* write_task, and the viewer rendering it, unless the viewer's subscription
\* lagged past it (`miss`). A panic in process() ends the thread. At most
\* `limit` calls.
ProcessCall(geoms, limit, misses) ==
    /\ poller_pc # "panicked"
    /\ frame_count < limit
    /\ \E g \in geoms : \E frame \in FramesOf(g[1], g[2]) : \E miss \in misses :
       \E out \in {process(last_frame, age, g[1], g[2], frame)} :
       \E delta_smaller \in {DeltaSmaller(last_frame, frame)} :
         LET seen == IF miss THEN "lost"
                     ELSE IF ~out.packet.is_delta THEN "live"
                     ELSE IF view = "live" THEN "live" ELSE "recovering"
         IN  IF out.panicked
             THEN /\ poller_pc' = "panicked"
                  /\ last_call' = [n |-> last_call.n + 1, panicked |-> TRUE,
                                   elapsed |-> age, gap |-> gap,
                                   is_delta |-> FALSE, flags |-> 0,
                                   delta_smaller |-> delta_smaller,
                                   frame |-> frame, previous |-> last_frame,
                                   count |-> frame_count,
                                   packet |-> NoPacket]
                  /\ UNCHANGED <<last_frame, frame_count, age, gap, client,
                                 delta_run, lost_any, view, stale>>
             ELSE /\ last_frame' = frame
                  /\ age' = last_keyframe_elapsed(out.packet.is_delta, age)
                  /\ frame_count' = frame_count + 1
                  /\ gap' = 0
                  /\ client' = IF miss THEN client
                               ELSE OnMessage(client, WriteVideo(out.packet))
                  /\ last_call' = [n |-> last_call.n + 1, panicked |-> FALSE,
                                   elapsed |-> age, gap |-> gap,
                                   is_delta |-> out.packet.is_delta,
                                   flags |-> out.flags,
                                   delta_smaller |-> delta_smaller,
                                   frame |-> frame, previous |-> last_frame,
                                   count |-> frame_count,
                                   packet |-> out.packet]
                  /\ delta_run' = IF out.packet.is_delta
                                  THEN Min(delta_run + 1, KeyframeWindow)
                                  ELSE 0
                  /\ lost_any' = (lost_any \/ miss)
                  /\ view' = seen
                  /\ stale' = IF miss \/ seen = "live" THEN 0 ELSE stale
                  /\ UNCHANGED poller_pc
    /\ UNCHANGED <<bus_log, events, loop_pc, loop_event, sess, server>>
    /\ UNCHANGED shmVars

\* The poller and the viewer with frames of every geometry and a lossy bus
Process == ProcessCall(Geoms, MaxCalls, BOOLEAN)

\* A long run of calls on one-pixel frames, nothing lost
ProcessSteady == ProcessCall({<<1, 1>>}, KeyframeWindow + 1, {FALSE})

\* Time passes; the next frame arrives within MaxGap ticks of the last call
\* for as long as the polling thread runs.
Tick ==
    /\ gap < MaxGap \/ (poller_pc = "panicked" /\ stale < AgeCap)
    /\ gap' = Min(gap + 1, MaxGap)
    /\ age' = Min(age + 1, AgeCap)
    /\ stale' = IF view # "live" THEN Min(stale + 1, AgeCap) ELSE stale
    /\ UNCHANGED <<last_frame, frame_count, client, last_call, delta_run,
                   lost_any, view>>
    /\ UNCHANGED <<shmVars, busVars>>

NextProc == Process \/ Tick

NextSteady == ProcessSteady \/ Tick

(***************************************************************************)
(* The handshake (protocol/handshake.rs).                                  *)
(***************************************************************************)
\* Capability flags
CAP_DELTA == 1
CAP_AUDIO == 2
CAP_DEBUG == 4

\* b"PERUN_HELLO", b"OK", b"ERROR"
MAGIC_HELLO == <<80, 69, 82, 85, 78, 95, 72, 69, 76, 76, 79>>
MAGIC_OK == <<79, 75>>
MAGIC_ERROR == <<69, 82, 82, 79, 82>>

\* "Invalid magic string" and "Incomplete handshake" as bytes
InvalidMagicString ==
    <<73, 110, 118, 97, 108, 105, 100, 32, 109, 97, 103, 105, 99, 32, 115,
      116, 114, 105, 110, 103>>
IncompleteHandshake ==
    <<73, 110, 99, 111, 109, 112, 108, 101, 116, 101, 32, 104, 97, 110, 100,
      115, 104, 97, 107, 101>>

\* u16::from_be_bytes
FromBE16(hi, lo) == 256 * hi + lo

\* u16 &
And16(a, b) ==
    256 * And8(a \div 256, b \div 256) + And8(a % 256, b % 256)

\* Handshake::create_hello
create_hello(version, caps) == MAGIC_HELLO \o BE16(version) \o BE16(caps)

\* Handshake::create_ok
create_ok(version, caps) == MAGIC_OK \o BE16(version) \o BE16(caps)

\* Handshake::create_error: the message and a null terminator
create_error(msg) == MAGIC_ERROR \o msg \o <<0>>

\* Mutant of negotiated_caps: the client's mask is granted as asked.
negotiated_caps_as_asked(client_caps, server_capabilities) == client_caps

\* process_hello: `client_caps & server_capabilities`
negotiated_caps(client_caps, server_capabilities) ==
    And16(client_caps, server_capabilities)

\* Handshake::process_hello
process_hello(data, server_capabilities) ==
    IF Len(data) < 15
    THEN [err |-> TRUE, accepted |-> FALSE, version |-> 0, capabilities |-> 0,
          error |-> <<>>]
    ELSE IF SubSeq(data, 1, 11) # MAGIC_HELLO
    THEN [err |-> FALSE, accepted |-> FALSE, version |-> 0,
          capabilities |-> 0, error |-> InvalidMagicString]
    ELSE [err |-> FALSE, accepted |-> TRUE,
          version |-> FromBE16(data[12], data[13]),
          capabilities |-> negotiated_caps(FromBE16(data[14], data[15]),
                                           server_capabilities),
          error |-> <<>>]

(***************************************************************************)
(* The broadcast bus: ServerHandle, the sessions of handle_client, the     *)
(* SHM polling thread and the event loop of main.                          *)
(***************************************************************************)
\* Connections, in the order in which they enter handle_client
Clients == 1..MaxClients

\* exclude_client: None
NoClient == 0

\* usize::next_power_of_two
RECURSIVE PowerOfTwoFrom(_, _)
PowerOfTwoFrom(p, n) == IF p >= n THEN p ELSE PowerOfTwoFrom(2 * p, n)

next_power_of_two(n) == PowerOfTwoFrom(1, n)

\* Slots of broadcast::channel(config.broadcast_buffer)
BusSlots == next_power_of_two(BusCap)

\* Messages sent so far; message p (1-based) is retained while
\* p > BusTail - BusSlots.
BusTail == Len(bus_log)

\* Mutant of Oldest: a ring that keeps one message fewer than its capacity.
OldestShort == IF BusTail >= BusSlots THEN BusTail - BusSlots + 1 ELSE 0

Oldest == IF BusTail > BusSlots THEN BusTail - BusSlots ELSE 0

\* Mutant of SendReady: a send that waits until every subscriber has a free
\* slot (a bounded queue with back-pressure).
SendReadyWhenRoom ==
    \A c \in Clients :
        sess[c].st \in {"recv", "write"} => BusTail - sess[c].next < BusSlots

\* broadcast::Sender::send as called by ServerHandle::broadcast_*: a plain
\* function call whose result is dropped; it waits for no subscriber.
SendReady == TRUE

\* Sends already decided on and not yet made
PendingSends ==
    (IF poller_pc = "send" THEN 1 ELSE 0)
    + (IF loop_pc = "handle" /\ loop_event.kind = "input" THEN 1 ELSE 0)
    + Cardinality({i \in 1..Len(events) : events[i].kind = "input"})

SendBudget == BusTail + PendingSends < MaxPub

NoEvent == [kind |-> "none", id |-> NoClient, buttons |-> 0, caps |-> 0]

\* ServerConfig::default().capabilities
DefaultCaps == CAP_DELTA + CAP_AUDIO + CAP_DEBUG

\* Server::with_config: no client registered, ids start at 1
ServerNew(capabilities) ==
    [next_client_id |-> 1, clients |-> {}, capabilities |-> capabilities]

\* Server::client_count
client_count == Cardinality(server.clients)

\* A connection that has not reached handle_client.
\*   id, transport   what handle_client was entered with
\*   hello           the bytes the handshake read returned
\*   resp            the handshake response handle_client wrote
\*   caps            ClientState.capabilities
\*   wbuf            WebSocketConnection.write_buffer: what was written and
\*                   not flushed (0: the handshake response, p: message p)
\*   rx              what reached the viewer, one entry per delivery
\*   next            messages of the bus the receiver is past
\*   msg             the message being written
\*   out             the messages written
\* and as history: lost (messages reported as Lagged so far), told and sub
\* (BusTail when ClientConnected was sent, when the session subscribed),
\* connected and disconnected (events sent for this connection).
\* The read side is in `reader`:
\*   pc              position of read_task: at reader.read ("read"), in the
\*                   `while pending_data.len() >= SIZE` loop ("parse"), or
\*                   returned ("done")
\*   frames          WebSocket messages received and not yet polled
\*   read_buffer, read_pos, open   the fields of WebSocketConnection
\*   inbox           bytes the transport holds for the next reads (TCP)
\*   eof             the peer has closed its side
\*   pending         pending_data
\* and as history: sent (the packets the viewer sends), posted (it has sent
\* them), handled (the packets that reached the `match header.packet_type`),
\* got (the bytes the reads returned), reads (the reads that returned bytes),
\* zero (a read returned Ok(0)).
ReaderOff ==
    [pc |-> "read", frames |-> <<>>, read_buffer |-> <<>>, read_pos |-> 0,
     open |-> TRUE, inbox |-> <<>>, eof |-> FALSE, pending |-> <<>>,
     sent |-> <<>>, posted |-> FALSE, handled |-> <<>>, got |-> <<>>,
     reads |-> 0, zero |-> FALSE]

SessionOff ==
    [st |-> "off", id |-> NoClient, transport |-> "none", hello |-> <<>>,
     resp |-> <<>>, caps |-> 0, wbuf |-> <<>>, rx |-> <<>>, next |-> 0,
     msg |-> 0, out |-> <<>>, stalled |-> FALSE, lost |-> 0, told |-> 0,
     sub |-> 0, connected |-> 0, disconnected |-> 0, reader |-> ReaderOff]

BusNew ==
    /\ bus_log = <<>>
    /\ events = <<>>
    /\ poller_pc = "poll"
    /\ loop_pc = "recv"
    /\ loop_event = NoEvent
    /\ sess = [c \in Clients |-> SessionOff]

\* SHM polling thread: read_frame_into returned a frame and process() made
\* its packet.
PollerFrame ==
    /\ poller_pc = "poll"
    /\ SendBudget
    /\ poller_pc' = "send"
    /\ UNCHANGED <<bus_log, events, loop_pc, loop_event, sess, server>>
    /\ UNCHANGED <<shmVars, procVars>>

\* SHM polling thread: handle.broadcast_video_frame(packet, None)
PollerSend ==
    /\ poller_pc = "send"
    /\ SendReady
    /\ bus_log' = Append(bus_log, [kind |-> "video", exclude |-> NoClient,
                                   buttons |-> 0])
    /\ poller_pc' = "poll"
    /\ UNCHANGED <<events, loop_pc, loop_event, sess, server>>
    /\ UNCHANGED <<shmVars, procVars>>

\* Event loop: event_rx.recv()
LoopRecv ==
    /\ loop_pc = "recv"
    /\ events # <<>>
    /\ loop_event' = Head(events)
    /\ events' = Tail(events)
    /\ loop_pc' = "handle"
    /\ UNCHANGED <<bus_log, poller_pc, sess, server>>
    /\ UNCHANGED <<shmVars, procVars>>

\* Mutant of u16_as_u32: the cast through i16 (sign extension).
u16_as_u32_signed(buttons) ==
    IF buttons >= 32768 THEN buttons - 65536 ELSE buttons

\* `buttons as u32` of a u16: the value, upper 16 bits zero
u16_as_u32(buttons) == buttons % 65536

\* ShmHost::write_inputs
write_inputs(buttons) == u16_as_u32(buttons)

\* Event loop: the match arm of the event. InputEventReceived writes the
\* buttons to the region and publishes the packet to all but its sender; the
\* connection events are logged.
LoopHandle ==
    /\ loop_pc = "handle"
    /\ IF loop_event.kind = "input"
       THEN /\ SendReady
            /\ input_flags' = write_inputs(loop_event.buttons)
            /\ bus_log' = Append(bus_log, [kind |-> "input",
                                           exclude |-> loop_event.id,
                                           buttons |-> loop_event.buttons])
       ELSE UNCHANGED <<input_flags, bus_log>>
    /\ loop_pc' = "recv"
    /\ loop_event' = NoEvent
    /\ UNCHANGED <<events, poller_pc, sess, server>>
    /\ UNCHANGED <<status_flag, frame_buffer, core_pc, core_input,
                   core_status, core_cell, relay_pc, relay_status, relay_cell,
                   buffer, last_store, published, taken, core_error,
                   unread>>
    /\ UNCHANGED procVars

\* AsyncWrite::write_all on the connection. A TcpStream hands the bytes to
\* the socket; WebSocketConnection::poll_write appends them to write_buffer.
write_all(s, seg) ==
    IF s.transport = "ws" THEN [s EXCEPT !.wbuf = Append(@, seg)]
    ELSE [s EXCEPT !.rx = Append(@, <<seg>>)]

\* AsyncWrite::flush. WebSocketConnection::poll_flush sends the whole
\* write_buffer as one binary message.
flush(s) ==
    IF s.transport = "ws" /\ s.wbuf # <<>>
    THEN [s EXCEPT !.rx = Append(@, s.wbuf), !.wbuf = <<>>]
    ELSE s

\* The connection is dropped: what write_buffer holds is never sent.
Dropped(s) == [s EXCEPT !.wbuf = <<>>]

\* HELLO messages a viewer may send: well-formed ones, one with a wrong
\* magic, one cut short, and nothing at all.
ClientMasks == {CAP_DELTA, CAP_DELTA + CAP_AUDIO, 256 + CAP_DEBUG + CAP_DELTA}
ServerMasks == {DefaultCaps, 256 + CAP_AUDIO + CAP_DELTA}
GoodHellos == {create_hello(1, caps) : caps \in ClientMasks}
WrongMagic == <<80, 69, 82, 85, 78, 95, 72, 69, 76, 76, 88>>
BadHello == WrongMagic \o BE16(1) \o BE16(CAP_DELTA)
ShortHello == SubSeq(create_hello(1, CAP_DELTA), 1, 14)
Hellos == GoodHellos \cup {BadHello, ShortHello, <<>>}

\* handle_client is entered: the id is taken from next_client_id.
SessAccept(c, transports) ==
    /\ sess[c].st = "off"
    /\ \A d \in Clients : d < c => sess[d].st # "off"
    /\ \E t \in transports :
         sess' = [sess EXCEPT ![c].st = "hello", ![c].transport = t,
                              ![c].id = server.next_client_id]
    /\ server' = [server EXCEPT !.next_client_id = @ + 1]
    /\ UNCHANGED <<bus_log, events, poller_pc, loop_pc, loop_event>>
    /\ UNCHANGED <<shmVars, procVars>>

\* Mutant of Registered: the client is registered whatever the handshake
\* gave.
RegisteredAlways(clients, id, accepted, capabilities) ==
    {cs \in clients : cs.id # id}
        \cup {[id |-> id, capabilities |-> capabilities]}

\* clients.insert(client_id, ClientState{..}), reached by an accepted
\* handshake whose OK was written
Registered(clients, id, accepted, capabilities) ==
    IF accepted
    THEN {cs \in clients : cs.id # id}
             \cup {[id |-> id, capabilities |-> capabilities]}
    ELSE clients

\* handle_client, the handshake phase: one read, process_hello, the response,
\* and for an accepted HELLO the registration. io: the read fails, the write
\* of the OK fails, or both succeed.
SessHello(c, hellos, ios) ==
    /\ sess[c].st = "hello"
    /\ \E data \in hellos : \E io \in ios :
         LET s == [sess[c] EXCEPT !.hello =
                                      IF io = "read_err" THEN <<>> ELSE data]
             result == process_hello(data, server.capabilities)
             accepted == io = "ok" /\ Len(data) >= 15 /\ result.accepted
             after ==
               IF io = "read_err"
               THEN Dropped([s EXCEPT !.st = "failed"])
               ELSE IF Len(data) < 15
               THEN LET error_resp == create_error(IncompleteHandshake)
                    IN  Dropped([write_all(s, 0) EXCEPT !.st = "failed",
                                                        !.resp = error_resp])
               ELSE IF ~result.accepted
               THEN LET error_resp == create_error(result.error)
                    IN  Dropped([write_all(s, 0) EXCEPT !.st = "failed",
                                                        !.resp = error_resp])
               ELSE IF io = "write_err"
               THEN Dropped([s EXCEPT !.st = "failed"])
               ELSE [write_all(s, 0) EXCEPT
                        !.st = "registered",
                        !.resp = create_ok(1, result.capabilities),
                        !.caps = result.capabilities]
         IN  /\ sess' = [sess EXCEPT ![c] = after]
             /\ server' = [server EXCEPT !.clients =
                               Registered(@, s.id, accepted,
                                          result.capabilities)]
    /\ UNCHANGED <<bus_log, events, poller_pc, loop_pc, loop_event>>
    /\ UNCHANGED <<shmVars, procVars>>

\* handle_client: event_tx.send(ClientConnected{..}).await (waits for room)
SessNotify(c) ==
    /\ sess[c].st = "registered"
    /\ Len(events) < MaxEvents
    /\ events' = Append(events, [kind |-> "connected", id |-> sess[c].id,
                                 buttons |-> 0, caps |-> sess[c].caps])
    /\ sess' = [sess EXCEPT ![c].st = "notified", ![c].connected = @ + 1,
                            ![c].told = BusTail]
    /\ UNCHANGED <<bus_log, poller_pc, loop_pc, loop_event, server>>
    /\ UNCHANGED <<shmVars, procVars>>

\* handle_client: broadcast_tx.subscribe(), and the two tasks start.
SessSubscribe(c) ==
    /\ sess[c].st = "notified"
    /\ sess' = [sess EXCEPT ![c].st = "recv", ![c].next = BusTail,
                            ![c].sub = BusTail]
    /\ UNCHANGED <<bus_log, events, poller_pc, loop_pc, loop_event, server>>
    /\ UNCHANGED <<shmVars, procVars>>

\* Mutant of Consumed: recv() hands a message out and leaves it in place.
ConsumedNot(next) == next

\* The receiver's cursor after recv() returned the message at `next`
Consumed(next) == next + 1

\* Mutant of Excluded: nothing is held back from anyone.
ExcludedNever(exclude_client, client_id) == FALSE

\* write_task: `exclude == Some(client_id)`
Excluded(exclude_client, client_id) == exclude_client = client_id

\* write_task: broadcast_rx.recv() returns. Lagged(n) moves the cursor to the
\* oldest retained message and the loop continues; a message excluded for
\* this client is skipped; any other is serialized for writing.
SessRecv(c) ==
    /\ sess[c].st = "recv"
    /\ sess[c].next < BusTail
    /\ IF sess[c].next < Oldest
       THEN sess' = [sess EXCEPT ![c].next = Oldest,
                                 ![c].lost = @ + (Oldest - sess[c].next)]
       ELSE LET p == sess[c].next + 1
            IN  IF Excluded(bus_log[p].exclude, sess[c].id)
                THEN sess' = [sess EXCEPT ![c].next = Consumed(@)]
                ELSE sess' = [sess EXCEPT ![c].next = Consumed(@),
                                          ![c].msg = p, ![c].st = "write"]
    /\ UNCHANGED <<bus_log, events, poller_pc, loop_pc, loop_event, server>>
    /\ UNCHANGED <<shmVars, procVars>>

\* write_task: write_all and flush complete (the viewer's socket takes the
\* bytes).
SessWrite(c) ==
    /\ sess[c].st = "write"
    /\ ~sess[c].stalled
    /\ sess' = [sess EXCEPT ![c] =
                   [flush(write_all(sess[c], sess[c].msg)) EXCEPT
                       !.out = Append(@, sess[c].msg), !.msg = 0,
                       !.st = "recv"]]
    /\ UNCHANGED <<bus_log, events, poller_pc, loop_pc, loop_event, server>>
    /\ UNCHANGED <<shmVars, procVars>>

\* read_task: an InputEvent packet of the viewer is parsed and sent to the
\* event loop (event_tx.send(..).await waits for room).
SessInput(c, words) ==
    /\ sess[c].st \in {"recv", "write"}
    /\ Len(events) < MaxEvents
    /\ SendBudget
    /\ \E b \in words :
         events' = Append(events, [kind |-> "input", id |-> sess[c].id,
                                   buttons |-> b, caps |-> 0])
    /\ UNCHANGED <<bus_log, poller_pc, loop_pc, loop_event, sess, server>>
    /\ UNCHANGED <<shmVars, procVars>>

\* A write or read error, or end of input: one task returns, select! drops
\* the other, and the client is taken out of the registry.
SessBreak(c) ==
    /\ sess[c].st \in {"recv", "write"}
    /\ sess' = [sess EXCEPT ![c] = Dropped([@ EXCEPT !.st = "closing",
                                                     !.msg = 0])]
    /\ server' = [server EXCEPT !.clients =
                      {cs \in @ : cs.id # sess[c].id}]
    /\ UNCHANGED <<bus_log, events, poller_pc, loop_pc, loop_event>>
    /\ UNCHANGED <<shmVars, procVars>>

\* Mutant of CleanupEvents: a session that ends tells nobody.
CleanupEventsNone(id) == <<>>

\* Cleanup: event_tx.send(ClientDisconnected{id}).await
CleanupEvents(id) ==
    <<[kind |-> "disconnected", id |-> id, buttons |-> 0, caps |-> 0]>>

SessCleanup(c) ==
    /\ sess[c].st = "closing"
    /\ Len(events) < MaxEvents
    /\ events' = events \o CleanupEvents(sess[c].id)
    /\ sess' = [sess EXCEPT ![c].st = "closed",
                            ![c].disconnected =
                                @ + Len(CleanupEvents(sess[c].id))]
    /\ UNCHANGED <<bus_log, poller_pc, loop_pc, loop_event, server>>
    /\ UNCHANGED <<shmVars, procVars>>

\* The viewer stops / resumes taking bytes from its socket (seen by the
\* session when it has bytes to write).
ViewerStall(c) ==
    /\ sess[c].st = "write"
    /\ ~sess[c].stalled
    /\ sess' = [sess EXCEPT ![c].stalled = TRUE]
    /\ UNCHANGED <<bus_log, events, poller_pc, loop_pc, loop_event, server>>
    /\ UNCHANGED <<shmVars, procVars>>

ViewerResume(c) ==
    /\ sess[c].stalled
    /\ sess[c].st = "write"
    /\ sess' = [sess EXCEPT ![c].stalled = FALSE]
    /\ UNCHANGED <<bus_log, events, poller_pc, loop_pc, loop_event, server>>
    /\ UNCHANGED <<shmVars, procVars>>

\* A session of a viewer that speaks the protocol over TCP
SessStep(c) ==
    \/ SessAccept(c, {"tcp"})
    \/ SessHello(c, {create_hello(1, CAP_DELTA)}, {"ok"})
    \/ SessNotify(c)
    \/ SessSubscribe(c)
    \/ SessRecv(c)
    \/ SessWrite(c)
    \/ SessInput(c, {1})
    \/ SessBreak(c)
    \/ SessCleanup(c)
    \/ ViewerStall(c)
    \/ ViewerResume(c)

NextBus ==
    \/ PollerFrame
    \/ PollerSend
    \/ LoopRecv
    \/ LoopHandle
    \/ \E c \in Clients : SessStep(c)

\* A session of any viewer on either transport
SessShake(c) ==
    \/ SessAccept(c, {"tcp", "ws"})
    \/ SessHello(c, Hellos, {"ok", "read_err", "write_err"})
    \/ SessNotify(c)
    \/ SessSubscribe(c)
    \/ SessRecv(c)
    \/ SessWrite(c)
    \/ SessBreak(c)
    \/ SessCleanup(c)

\* The polling thread while the session specification lets it publish
PollerFrameFew ==
    /\ BusTail + PendingSends < MaxFrames
    /\ PollerFrame

NextSession ==
    \/ PollerFrameFew
    \/ PollerSend
    \/ LoopRecv
    \/ LoopHandle
    \/ \E c \in Clients : SessShake(c)

(***************************************************************************)
(* Specifications of the handoff.                                          *)
(***************************************************************************)
ShmFresh ==
    /\ status_flag = STATUS_IDLE
    /\ input_flags = 0
    /\ frame_buffer = ZeroFrame
    /\ core_input = 0
    /\ core_status = STATUS_IDLE
    /\ core_cell = 1
    /\ core_error = "none"
    /\ unread = 0
    /\ relay_status = STATUS_IDLE
    /\ relay_cell = 1
    /\ buffer = <<>>
    /\ published = ZeroFrame
    /\ taken = ZeroFrame

\* The launcher's order (perun-cli start_demo): the relay is started and has
\* initialised the region; the core is started after it and is about to
\* initialise.
Init ==
    /\ ShmFresh
    /\ ProcNew
    /\ BusNew
    /\ server = ServerNew(DefaultCaps)
    /\ core_pc = "init"
    /\ relay_pc = "poll"
    /\ last_store = [by |-> "relay", from |-> STATUS_IDLE, to |-> STATUS_IDLE,
                     flip |-> 0]

CoreStep ==
    \/ CoreInit
    \/ CoreReadInput
    \/ CoreLoadStatus
    \/ CoreClaim
    \/ CoreUpdateWrite
    \/ CoreUpdateErr
    \/ CorePublish
    \/ CoreSkip
    \/ CorePace

RelayStep ==
    \/ RelayLoad
    \/ RelayMark
    \/ RelayCopy
    \/ RelayRelease
    \/ RelayHandOn
    \/ RelayIdle
    \/ WriteInputs

Next == CoreStep \/ RelayStep

Spec == Init /\ [][Next]_vars

\* Any start order, and a core that is started again after it has ended: the
\* region file is new (zero-filled), neither process runs yet.
InitBoot ==
    /\ ShmFresh
    /\ ProcNew
    /\ BusNew
    /\ server = ServerNew(DefaultCaps)
    /\ core_pc = "down"
    /\ relay_pc = "down"
    /\ last_store = [by |-> "none", from |-> STATUS_IDLE, to |-> STATUS_IDLE,
                     flip |-> 0]

NextBoot == Next \/ CoreLaunch \/ RelayStart

SpecBoot == InitBoot /\ [][NextBoot]_vars

\* The processor and one viewer, frames of every geometry, a lossy bus
SpecProc == Init /\ [][NextProc]_vars

\* The processor over a long run of calls
SpecSteady == Init /\ [][NextSteady]_vars

\* The bus: polling thread, event loop and sessions
SpecBus == Init /\ [][NextBus]_vars

\* Connections of every kind against a server of either configuration
InitSession ==
    /\ ShmFresh
    /\ ProcNew
    /\ BusNew
    /\ \E capabilities \in ServerMasks : server = ServerNew(capabilities)
    /\ core_pc = "init"
    /\ relay_pc = "poll"
    /\ last_store = [by |-> "relay", from |-> STATUS_IDLE, to |-> STATUS_IDLE,
                     flip |-> 0]

SpecSession == InitSession /\ [][NextSession]_vars

\* Button words of viewers: small ones and ones with the top bit set
ButtonWords == (0..MaxButtons) \cup {65535 - b : b \in 0..MaxButtons}

\* The way of an input: sessions that send button words, the event loop, and
\* the core that samples input_flags
SessPress(c) ==
    \/ SessAccept(c, {"tcp"})
    \/ SessHello(c, {create_hello(1, CAP_DELTA)}, {"ok"})
    \/ SessNotify(c)
    \/ SessSubscribe(c)
    \/ BusTail + PendingSends < MaxInputs /\ SessInput(c, ButtonWords)

NextInput ==
    \/ LoopRecv
    \/ LoopHandle
    \/ CoreStep
    \/ \E c \in Clients : SessPress(c)

SpecInput == Init /\ [][NextInput]_vars

\* The relay may stop inside read_frame_into; nothing starts it again.
NextCrash == Next \/ RelayCrash

SpecCrash == Init /\ [][NextCrash]_vars

(***************************************************************************)
(* Claims about the handoff.                                               *)
(***************************************************************************)
\* C1: the core writes frame_buffer only while status_flag = CORE_WRITING, the
\* relay copies it only while status_flag = SERVER_READING, the two never hold
\* the buffer together, the buffer does not change under a copy, and the frame
\* read_frame_into returns is the buffer as one completed core write left it.
C1_HandoffExclusive ==
    /\ core_pc = "write" => status_flag = STATUS_CORE_WRITING
    /\ relay_pc = "copy" => status_flag = STATUS_SERVER_READING
    /\ ~(core_pc = "write" /\ relay_pc = "copy")
    /\ relay_pc = "copy" =>
          /\ frame_buffer = taken
          /\ \A i \in Cells : i < relay_cell => buffer[i] = taken[i]
    /\ relay_pc = "got" => buffer = taken

\* C1 witness: read_frame_into has returned a frame the core wrote, and the core
\* is already writing the next one.
C1_Witness ==
    /\ relay_pc = "got"
    /\ buffer = taken
    /\ buffer # ZeroFrame
    /\ core_pc = "write"
    /\ frame_buffer # buffer

\* C2: once the core has initialised (the relay has before it), every store
\* into status_flag stores the ring successor of the value it replaces, and
\* status_flag changes by such stores only.
C2_RingTransitions ==
    [][ /\ status_flag' # status_flag => last_store' # last_store
        /\ (core_pc # "init" /\ last_store' # last_store) =>
              /\ last_store'.from = status_flag
              /\ last_store'.to = status_flag'
              /\ status_flag' = RingSucc(status_flag) ]_vars

\* C2 witness: the ring has been gone round, the relay's store of IDLE last.
C2_Witness ==
    /\ last_store.by = "relay"
    /\ last_store.from = STATUS_SERVER_READING
    /\ last_store.to = STATUS_IDLE
    /\ status_flag = STATUS_IDLE

\* C3: every store that changes status_flag is made by the side that owns the
\* value stored: CORE_WRITING and FRAME_READY by the core, SERVER_READING and
\* IDLE by the relay.
C3_EachSideStoresItsOwn ==
    last_store.from # last_store.to =>
        /\ last_store.by = "core" =>
              last_store.to \in {STATUS_CORE_WRITING, STATUS_FRAME_READY}
        /\ last_store.by = "relay" =>
              last_store.to \in {STATUS_SERVER_READING, STATUS_IDLE}

\* C4: in an iteration whose load of status_flag found a value other than IDLE,
\* no step of the core changes status_flag or frame_buffer, the iteration goes
\* on to the pacing sleep and the next iteration, and the skip is enabled
\* whatever the relay is doing.
C4_SkipLeavesRegion ==
    /\ [][ ( /\ core_pc \in {"decide", "pace"}
             /\ core_status # STATUS_IDLE
             /\ core_pc' # core_pc ) =>
           ( /\ UNCHANGED <<status_flag, frame_buffer>>
             /\ core_pc' = IF core_pc = "decide" THEN "pace" ELSE "top" ) ]_vars
    /\ [](core_pc = "decide" /\ core_status # STATUS_IDLE => ENABLED CoreSkip)

\* C4 witness: the core has skipped a frame because the relay was reading, and
\* the relay is still copying.
C4_Witness ==
    /\ core_pc = "pace"
    /\ core_status = STATUS_SERVER_READING
    /\ relay_pc = "copy"

\* C5: a viewer that has rendered every packet of the processor, in order,
\* shows after each packet exactly the frame that packet was made from.
C5_ViewerShowsEveryFrame ==
    (frame_count > 0 /\ ~lost_any) =>
        /\ client.image_data_buffer = last_frame
        /\ client.previous_frame_buffer = last_frame

\* Three packets rendered in order, the last a delta on a two-pixel frame
\* that differs from the one before the viewer's geometry was set.
C5_Witness ==
    /\ frame_count >= 3
    /\ ~lost_any
    /\ last_call.is_delta
    /\ Len(last_frame) = 8
    /\ client.image_data_buffer = last_frame

\* C6: the first process() call of a processor emits a keyframe, whatever
\* the frame (the empty one included) and however long after construction.
C6_FirstCallIsKeyframe ==
    last_call.n = 1 =>
        /\ ~last_call.panicked
        /\ ~last_call.is_delta
        /\ And8(last_call.flags, FLAG_DELTA) = 0

\* C7: a call made a second or more after the last keyframe emits a
\* keyframe, and a keyframe follows the one before it by less than a second
\* plus the time since the previous call.
C7_KeyframeForcedByTime ==
    last_call.n > 0 =>
        /\ last_call.elapsed >= force_keyframe_interval =>
               (~last_call.panicked /\ ~last_call.is_delta)
        /\ (~last_call.panicked /\ ~last_call.is_delta) =>
               last_call.elapsed < force_keyframe_interval + last_call.gap
        /\ last_call.is_delta => last_call.elapsed < force_keyframe_interval

\* A call a second after the last keyframe whose delta would have compressed
\* smaller, and a keyframe came out.
C7_Witness ==
    /\ frame_count >= 2
    /\ last_call.elapsed >= force_keyframe_interval
    /\ last_call.delta_smaller
    /\ ~last_call.is_delta

\* C8 as stated: every window of KeyframeWindow consecutive calls holds a
\* keyframe, that is, no KeyframeWindow calls in a row emit deltas.
C8_KeyframeEveryWindow == delta_run < KeyframeWindow

\* C8 as the code has it: keyframes are forced by time alone, so a window of
\* KeyframeWindow calls without a keyframe ends less than a second after the
\* keyframe before it.
C8_WindowWithoutKeyframeIsShort ==
    delta_run >= KeyframeWindow =>
        /\ last_call.is_delta
        /\ last_call.elapsed < force_keyframe_interval

\* KeyframeWindow deltas in a row.
C8_Witness == delta_run >= KeyframeWindow /\ frame_count > KeyframeWindow

\* C9: a viewer that missed packets shows the producer's frame again once it
\* has rendered the next keyframe and keeps showing it for the packets that
\* follow in order; it is out of date for less than a forced-keyframe period
\* plus the time between calls.
C9_KeyframeRepairsViewer ==
    /\ (lost_any /\ view = "live") =>
           /\ client.image_data_buffer = last_frame
           /\ client.previous_frame_buffer = last_frame
    /\ view # "live" => stale < force_keyframe_interval + MaxGap

Missed(c, from) ==
    {p \in (from + 1)..sess[c].next :
        /\ bus_log[p].exclude # sess[c].id
        /\ p # sess[c].msg
        /\ \A i \in 1..Len(sess[c].out) : sess[c].out[i] # p}

C13_SenderExcluded ==
    /\ [](\A c \in Clients :
            /\ \A i \in 1..Len(sess[c].out) :
                  bus_log[sess[c].out[i]].exclude # sess[c].id
            /\ sess[c].msg # 0 => bus_log[sess[c].msg].exclude # sess[c].id
            /\ (sess[c].st \in {"recv", "write"} /\ sess[c].lost = 0) =>
                  \A p \in (sess[c].sub + 1)..sess[c].next :
                      bus_log[p].exclude \notin {NoClient, sess[c].id} =>
                          \/ p = sess[c].msg
                          \/ \E i \in 1..Len(sess[c].out) : sess[c].out[i] = p)
    /\ [][(loop_pc = "handle" /\ loop_pc' = "recv"
               /\ loop_event.kind = "input") =>
             /\ Len(bus_log') = Len(bus_log) + 1
             /\ bus_log'[Len(bus_log')].kind = "input"
             /\ bus_log'[Len(bus_log')].exclude = loop_event.id
             /\ loop_event.id # NoClient]_vars
    /\ [][\A c \in Clients :
             (Len(events') > Len(events)
                /\ events'[Len(events')].kind = "input"
                /\ events'[Len(events')].id = sess[c].id) =>
                    sess[c].st \in {"recv", "write"}]_vars

\* The input of one viewer was published: its own session has passed it
\* without writing, the other viewer's session has written it.
C13_Witness ==
    \E c \in Clients : \E d \in Clients : \E p \in 1..BusTail :
        /\ bus_log[p].kind = "input" /\ bus_log[p].exclude = sess[c].id
        /\ sess[c].st = "recv" /\ sess[c].lost = 0 /\ sess[c].sub < p
        /\ sess[c].next >= p
        /\ \A i \in 1..Len(sess[c].out) : sess[c].out[i] # p
        /\ \E i \in 1..Len(sess[d].out) : sess[d].out[i] = p

\* Positions of the InputEvents the event loop has handled
Inputs == {p \in 1..BusTail : bus_log[p].kind = "input"}

\* C14: input_flags holds the buttons of the InputEvent the event loop handled
\* last, zero-extended to 32 bits (0 before the first one), whoever sent it;
\* the core samples the word and never changes it.
C14_InputFlagsLastWriter ==
    /\ [](/\ input_flags \in 0..65535
          /\ Inputs = {} => input_flags = 0
          /\ \A p \in Inputs :
                (\A q \in Inputs : q <= p) => input_flags = bus_log[p].buttons)
    /\ [][core_pc' # core_pc =>
             /\ input_flags' = input_flags
             /\ core_pc = "top" => core_input' = input_flags]_vars

\* Two viewers pressed in turn, the later word has its top bit set and is
\* what the region holds, and the core has sampled the earlier word.
C14_Witness ==
    \E p \in Inputs : \E q \in Inputs :
        /\ p < q /\ q = BusTail
        /\ bus_log[p].exclude # bus_log[q].exclude
        /\ bus_log[q].buttons >= 32768
        /\ input_flags = bus_log[q].buttons
        /\ core_input = bus_log[p].buttons
        /\ core_input # input_flags
        /\ core_pc # "top"

(***************************************************************************)
(* Claims about the handshake and the life of a session.                   *)
(***************************************************************************)
\* The HELLO a session read is whole and has the magic
HelloWellFormed(c) ==
    /\ Len(sess[c].hello) >= 15
    /\ \A i \in 1..11 : sess[c].hello[i] = MAGIC_HELLO[i]

\* The capability mask in a HELLO that is whole
AskedCaps(c) == 256 * sess[c].hello[14] + sess[c].hello[15]

\* n is m1 AND m2, bit by bit over 16 bits
IsMaskAnd(n, m1, m2) ==
    /\ n \in 0..65535
    /\ \A e \in 0..15 : Bit(n, 2 ^ e) = Bit(m1, 2 ^ e) * Bit(m2, 2 ^ e)

\* C15: whatever the client's mask and the server's mask, a HELLO with the
\* right magic is accepted (unless the write of the OK fails) and the
\* negotiated capabilities are the bitwise AND of the two masks; the OK
\* response, the registered ClientState and the ClientConnected event all
\* carry that value.
C15_CapsAreIntersection ==
    \A c \in Clients :
        (HelloWellFormed(c) /\ sess[c].st \notin {"off", "hello"}) =>
            \/ sess[c].st = "failed" /\ sess[c].resp = <<>>
            \/ /\ sess[c].st # "failed"
               /\ IsMaskAnd(sess[c].caps, AskedCaps(c), server.capabilities)
               /\ Len(sess[c].resp) = 6
               /\ <<sess[c].resp[1], sess[c].resp[2]>> = <<79, 75>>
               /\ 256 * sess[c].resp[5] + sess[c].resp[6] = sess[c].caps
               /\ \A cs \in server.clients :
                     cs.id = sess[c].id => cs.capabilities = sess[c].caps
               /\ sess[c].st = "registered" =>
                     \E cs \in server.clients : cs.id = sess[c].id
               /\ \A i \in 1..Len(events) :
                     (events[i].kind = "connected"
                        /\ events[i].id = sess[c].id) =>
                            events[i].caps = sess[c].caps
               /\ (loop_event.kind = "connected"
                     /\ loop_event.id = sess[c].id) =>
                         loop_event.caps = sess[c].caps

\* A client that asked for more than the server has, in both bytes of the
\* mask, is registered and announced with the intersection.
C15_Witness ==
    \E c \in Clients :
        /\ HelloWellFormed(c)
        /\ sess[c].st = "notified"
        /\ AskedCaps(c) > sess[c].caps
        /\ server.capabilities > sess[c].caps
        /\ sess[c].caps > 256
        /\ \E cs \in server.clients :
              cs.id = sess[c].id /\ cs.capabilities = sess[c].caps
        /\ \E i \in 1..Len(events) :
              /\ events[i].kind = "connected"
              /\ events[i].id = sess[c].id
              /\ events[i].caps = sess[c].caps

\* C16: when the 15 bytes of the handshake do not start with PERUN_HELLO, the
\* client is sent an ERROR response (ERROR, the message, one NUL), the
\* connection is closed and the session never reaches the packet phase, on
\* TCP and on the WebSocket adapter alike.
C16_BadMagicGetsError ==
    \A c \in Clients :
        (/\ sess[c].st \notin {"off", "hello"}
         /\ Len(sess[c].hello) >= 15
         /\ ~HelloWellFormed(c)) =>
            /\ sess[c].st = "failed"
            /\ sess[c].out = <<>>
            /\ sess[c].connected = 0
            /\ \A cs \in server.clients : cs.id # sess[c].id
            /\ sess[c].rx = <<<<0>>>>
            /\ Len(sess[c].resp) > 6
            /\ SubSeq(sess[c].resp, 1, 5) = <<69, 82, 82, 79, 82>>
            /\ \A i \in 1..Len(sess[c].resp) :
                  sess[c].resp[i] = 0 <=> i = Len(sess[c].resp)

\* C17: once the server has accepted a HELLO, the 6-byte OK reaches the
\* client, on its own and ahead of every packet, whether or not anything is
\* published, on TCP and on the WebSocket adapter alike: the first delivery
\* to an accepted client is the OK alone, and no later delivery holds it.
C17_OkArrivesAlone ==
    \A c \in Clients :
        sess[c].st \in {"registered", "notified", "recv", "write", "closing",
                        "closed"} =>
            /\ Len(sess[c].resp) = 6
            /\ Len(sess[c].rx) >= 1
            /\ sess[c].rx[1] = <<0>>
            /\ \A i \in 2..Len(sess[c].rx) :
                  \A j \in 1..Len(sess[c].rx[i]) : sess[c].rx[i][j] # 0

\* C18: when either half of a session ends, the other half is cancelled (the
\* session writes nothing more), the client id is removed from the registry
\* and exactly one ClientDisconnected{id} is sent, after the
\* ClientConnected{id}; a connection whose handshake failed sends none.
C18_OneDisconnectAfterConnect ==
    /\ [](\A c \in Clients :
            /\ sess[c].disconnected <= sess[c].connected
            /\ sess[c].connected <= 1
            /\ sess[c].st = "closing" =>
                  /\ sess[c].disconnected = 0 /\ sess[c].connected = 1
                  /\ sess[c].msg = 0
                  /\ \A cs \in server.clients : cs.id # sess[c].id
            /\ sess[c].st = "closed" =>
                  /\ sess[c].disconnected = 1 /\ sess[c].connected = 1
                  /\ \A cs \in server.clients : cs.id # sess[c].id
            /\ sess[c].st \notin {"closing", "closed"} =>
                  sess[c].disconnected = 0
            /\ \A i \in 1..Len(events) : \A j \in 1..Len(events) :
                  (/\ events[i].kind = "disconnected"
                   /\ events[j].kind = "connected"
                   /\ events[i].id = events[j].id) => j < i
            /\ Cardinality({i \in 1..Len(events) :
                              /\ events[i].kind = "disconnected"
                              /\ events[i].id = sess[c].id})
                 <= sess[c].disconnected)
    /\ [][\A c \in Clients :
             sess[c].st \in {"closing", "closed"} =>
                 /\ sess'[c].out = sess[c].out
                 /\ sess'[c].rx = sess[c].rx
                 /\ sess'[c].st \in {"closing", "closed"}]_vars

\* A session that wrote a packet has ended and its ClientDisconnected waits
\* in the event channel, while the other session is registered and running.
C18_Witness ==
    \E c \in Clients : \E d \in Clients :
        /\ sess[c].st = "closed" /\ sess[c].out # <<>>
        /\ \E i \in 1..Len(events) :
              events[i].kind = "disconnected" /\ events[i].id = sess[c].id
        /\ sess[d].st = "recv"
        /\ \E cs \in server.clients : cs.id = sess[d].id

\* Sessions that completed the handshake and have not run their cleanup
Live == {c \in Clients :
            sess[c].st \in {"registered", "notified", "recv", "write"}}

C20_SubscribedBeforeConnected ==
    \A c \in Clients :
        /\ sess[c].connected > 0 => sess[c].st # "notified"
        /\ sess[c].st \in {"recv", "write"} =>
              /\ sess[c].sub <= sess[c].told
              /\ Cardinality(Missed(c, sess[c].told)) <= sess[c].lost

\* C29: if the consumer stops after it stored SERVER_READING and before it
\* stores IDLE, status_flag stays SERVER_READING for good: the producer is
\* never in its write section and never ends, it keeps looping, every later
\* status it acts on makes it skip, and no step changes status_flag or
\* frame_buffer again.
C29_StuckInServerReading ==
    /\ [](relay_pc = "crashed" =>
            /\ status_flag = STATUS_SERVER_READING
            /\ core_pc \notin {"write", "exited"}
            /\ (core_pc = "decide" => ~CoreSeesIdle(core_status))
            /\ ENABLED CoreStep)
    /\ [][relay_pc = "crashed" =>
            /\ relay_pc' = "crashed"
            /\ status_flag' = status_flag
            /\ frame_buffer' = frame_buffer
            /\ last_store' = last_store]_vars

\* The relay has stopped mid-read and the core has since skipped a frame.
C29_Witness ==
    /\ relay_pc = "crashed"
    /\ core_pc = "pace"
    /\ core_status = STATUS_SERVER_READING

\* C30: an update that fails with a recoverable error is logged and the loop
\* goes on (the core process does not end).
C30_RecoverableErrorContinues ==
    core_error = "recoverable" => core_pc # "exited"

(***************************************************************************)
(* Client ids in the older server binary (src/server): the TCP listener    *)
(* hands connections to Server::handle_client, the WebSocket listener to   *)
(* handle_websocket_client, which takes its ids from a static of its own.  *)
(***************************************************************************)
WS_CLIENT_ID == 10000

\* Server::new of the older binary next to the static WS_CLIENT_ID.
LegacyNew ==
    [next_client_id |-> 1, ws_client_id |-> WS_CLIENT_ID, clients |-> {},
     capabilities |-> DefaultCaps]

\* AtomicU32::fetch_add(1): the value before the add is returned.
fetch_add(counter) == [got |-> counter, left |-> counter + 1]

\* A connection accepted by the TCP listener enters Server::handle_client:
\* `client_id = self.next_client_id.fetch_add(1, SeqCst)`.
LegacyAcceptTcp(c) ==
    /\ sess[c].st \in {"off", "closed"}
    /\ server.next_client_id < WS_CLIENT_ID + MaxClients
    /\ \E f \in {fetch_add(server.next_client_id)} :
         /\ sess' = [sess EXCEPT ![c] =
                       [SessionOff EXCEPT
                          !.st = "hello", !.transport = "tcp", !.id = f.got,
                          !.reader.sent = sess[c].reader.sent]]
         /\ server' = [server EXCEPT !.next_client_id = f.left]
    /\ UNCHANGED <<bus_log, events, poller_pc, loop_pc, loop_event>>
    /\ UNCHANGED <<shmVars, procVars>>

\* A connection accepted by the WebSocket listener enters
\* handle_websocket_client: `client_id = WS_CLIENT_ID.fetch_add(1, SeqCst)`.
LegacyAcceptWs(c) ==
    /\ sess[c].st \in {"off", "closed"}
    /\ server.ws_client_id < WS_CLIENT_ID + MaxClients
    /\ \E f \in {fetch_add(server.ws_client_id)} :
         /\ sess' = [sess EXCEPT ![c] =
                       [SessionOff EXCEPT
                          !.st = "hello", !.transport = "ws", !.id = f.got,
                          !.reader.sent = sess[c].reader.sent]]
         /\ server' = [server EXCEPT !.ws_client_id = f.left]
    /\ UNCHANGED <<bus_log, events, poller_pc, loop_pc, loop_event>>
    /\ UNCHANGED <<shmVars, procVars>>

\* The session ends (handshake failure, disconnect, error): the function
\* returns and the task is over. The id stays with the ended session.
LegacyEnd(c) ==
    /\ sess[c].st = "hello"
    /\ sess' = [sess EXCEPT ![c].st = "closed"]
    /\ UNCHANGED <<bus_log, events, poller_pc, loop_pc, loop_event, server>>
    /\ UNCHANGED <<shmVars, procVars>>

InitIds ==
    /\ ShmFresh
    /\ ProcNew
    /\ BusNew
    /\ server = LegacyNew
    /\ core_pc = "init"
    /\ relay_pc = "poll"
    /\ last_store = [by |-> "relay", from |-> STATUS_IDLE, to |-> STATUS_IDLE,
                     flip |-> 0]

\* One connection at a time on each listener: the TCP listener's sessions
\* follow one another in slot 1, the WebSocket listener's in slot 2.
NextIds ==
    \/ LegacyAcceptTcp(1)
    \/ LegacyAcceptWs(2)
    \/ \E c \in Clients : LegacyEnd(c)

SpecIds == InitIds /\ [][NextIds]_vars

\* C28: no two sessions, running or ended, on any transport, have the same
\* client id.
C28_IdsNeverShared ==
    \A c, d \in Clients :
        (c # d /\ sess[c].st # "off" /\ sess[d].st # "off")
            => sess[c].id # sess[d].id

(***************************************************************************)
(* compute_delta_simd and the viewer's delta application, on their own.    *)
(***************************************************************************)
\* Frame pairs for the delta: every colouring of the small geometries; of
\* the wide one (a 16-byte lane and a 4-byte tail), one pixel in one colour
\* and the rest in another.
DeltaFramesOf(width, height) ==
    IF <<width, height>> = WideGeom
    THEN {Flatten([i \in 1..(width * height) |-> IF i = k THEN p ELSE q]) :
            k \in 1..(width * height), p \in Palette, q \in Palette}
    ELSE {Flatten(px) : px \in [1..(width * height) -> Palette]}

\* A processor and a viewer that both hold frame A of some geometry: the
\* processor as last_frame, the viewer as what it shows.
InitDelta ==
    /\ ShmFresh
    /\ BusNew
    /\ server = ServerNew(DefaultCaps)
    /\ core_pc = "init"
    /\ relay_pc = "poll"
    /\ last_store = [by |-> "relay", from |-> STATUS_IDLE, to |-> STATUS_IDLE,
                     flip |-> 0]
    /\ \E g \in Geoms : \E A \in DeltaFramesOf(g[1], g[2]) :
         /\ last_frame = A
         /\ client = [width |-> g[1], height |-> g[2],
                      image_data_buffer |-> A, previous_frame_buffer |-> A]
    /\ frame_count = 0
    /\ age = 0
    /\ gap = 0
    /\ last_call = [n |-> 0, panicked |-> FALSE, previous |-> <<>>,
                    delta |-> <<>>]
    /\ delta_run = 0
    /\ lost_any = FALSE
    /\ view = "live"
    /\ stale = 0

\* compute_delta_simd(B, A) for a frame B as long as A, and the viewer
\* rendering the delta packet made of the result. A panic ends the thread.
DeltaCall ==
    /\ last_call.n = 0
    /\ \E B \in DeltaFramesOf(client.width, client.height) :
         IF cast_slice_panics(B, last_frame)
         THEN /\ poller_pc' = "panicked"
              /\ last_call' = [n |-> 1, panicked |-> TRUE,
                               previous |-> last_frame, delta |-> <<>>]
              /\ UNCHANGED <<last_frame, frame_count, client>>
         ELSE \E delta \in {compute_delta_simd(B, last_frame)} :
              /\ last_call' = [n |-> 1, panicked |-> FALSE,
                               previous |-> last_frame, delta |-> delta]
              /\ last_frame' = B
              /\ frame_count' = frame_count + 1
              /\ client' = render_frame(client,
                              [width |-> client.width,
                               height |-> client.height, is_delta |-> TRUE,
                               data |-> delta])
              /\ UNCHANGED poller_pc
    /\ UNCHANGED <<age, gap, delta_run, lost_any, view, stale>>
    /\ UNCHANGED <<bus_log, events, loop_pc, loop_event, sess, server>>
    /\ UNCHANGED shmVars

SpecDelta == InitDelta /\ [][DeltaCall]_vars

\* d = a ^ b, bit by bit
IsXor8(d, a, b) ==
    \A k \in {1, 2, 4, 8, 16, 32, 64, 128} :
        Bit(d, k) = (IF Bit(a, k) = Bit(b, k) THEN 0 ELSE 1)

\* C24: for every pair of frames (A, B) of equal length, compute_delta_simd
\* (B, A) returns the bytewise XOR of B and A, and the viewer that shows A
\* shows exactly B after applying that delta.
C24_DeltaIsXorAndInverts ==
    last_call.n = 1 =>
        /\ ~last_call.panicked
        /\ Len(last_call.delta) = Len(last_frame)
        /\ \A i \in 1..Len(last_frame) :
             IsXor8(last_call.delta[i], last_frame[i], last_call.previous[i])
        /\ client.image_data_buffer = last_frame

(***************************************************************************)
(* The packet codec (src/server/src/protocol/packets.rs), applied to       *)
(* packet values on its own.                                               *)
(***************************************************************************)
MaxSamples == 2

\* PacketHeader::SIZE
HEADER_SIZE == 8

\* put_i16: the two's complement of the sample, high byte first
put_i16(sample) == BE16((sample + 65536) % 65536)

\* Mutant of i16_from_be_bytes: the two bytes read as an unsigned number.
i16_from_be_bytes_unsigned(hi, lo) == 256 * hi + lo

\* i16::from_be_bytes([hi, lo])
i16_from_be_bytes(hi, lo) ==
    IF 256 * hi + lo >= 32768 THEN 256 * hi + lo - 65536 ELSE 256 * hi + lo

\* VideoFramePacket::serialize: put_u16(width), put_u16(height), data
VideoFramePacket_serialize(p) == BE16(p.width) \o BE16(p.height) \o p.data

\* VideoFramePacket::deserialize(data, flags)
VideoFramePacket_deserialize(data, flags) ==
    IF Len(data) < 4 THEN [ok |-> FALSE]
    ELSE [ok |-> TRUE,
          value |-> [width |-> FromBE16(data[1], data[2]),
                     height |-> FromBE16(data[3], data[4]),
                     is_delta |-> And8(flags, FLAG_DELTA) # 0,
                     data |-> SubSeq(data, 5, Len(data))]]

RECURSIVE PutSamples(_)
PutSamples(samples) ==
    IF samples = <<>> THEN <<>>
    ELSE put_i16(Head(samples)) \o PutSamples(Tail(samples))

\* AudioChunkPacket::serialize: put_u16(sample_rate), channels, each sample
AudioChunkPacket_serialize(p) ==
    BE16(p.sample_rate) \o <<p.channels>> \o PutSamples(p.samples)

\* AudioChunkPacket::deserialize
AudioChunkPacket_deserialize(data) ==
    IF Len(data) < 3 THEN [ok |-> FALSE]
    ELSE IF (Len(data) - 3) % 2 # 0 THEN [ok |-> FALSE]
    ELSE [ok |-> TRUE,
          value |-> [sample_rate |-> FromBE16(data[1], data[2]),
                     channels |-> data[3],
                     samples |-> [i \in 1..((Len(data) - 3) \div 2) |->
                                    i16_from_be_bytes(data[2 + 2 * i],
                                                      data[3 + 2 * i])]]]

\* InputEventPacket::serialize
InputEventPacket_serialize(p) == BE16(p.buttons) \o BE16(p.reserved)

\* InputEventPacket::deserialize
InputEventPacket_deserialize(data) ==
    IF Len(data) < 4 THEN [ok |-> FALSE]
    ELSE [ok |-> TRUE,
          value |-> [buttons |-> FromBE16(data[1], data[2]),
                     reserved |-> FromBE16(data[3], data[4])]]

\* Packet values the codec is applied to. A header length stays below 2^31.
HeaderValues ==
    [packet_type : 1..5, flags : {0, 1, 3, 255}, sequence : {0, 42, 65535},
     length : {0, 1024, 16909060, 2147483647}]

VideoValues ==
    [width : {0, 640, 65535}, height : {1, 258}, is_delta : BOOLEAN,
     data : {<<>>, <<0>>, <<1, 2, 3>>, <<255, 0, 255, 0, 9>>}]

SampleValues == {-32768, -1, 0, 1, 32767}

AudioValues ==
    [sample_rate : {0, 44100}, channels : {1, 255},
     samples : UNION {[1..n -> SampleValues] : n \in 0..MaxSamples}]

InputValues == [buttons : {0, 1, 32769, 65535}, reserved : {0, 258, 65535}]

\* The flags bytes a video packet may travel under: FLAG_DELTA is set exactly
\* when the packet is a delta.
VideoFlags(p) == {f \in {0, 1, 2, 3, 254, 255} : (And8(f, FLAG_DELTA) # 0) = p.is_delta}

CodecInputs ==
    {[kind |-> "header", value |-> h, flags |-> 0] : h \in HeaderValues}
    \cup {[kind |-> "video", value |-> p, flags |-> f] :
            p \in VideoValues, f \in {0, 1, 2, 3, 254, 255}}
    \cup {[kind |-> "audio", value |-> p, flags |-> 0] : p \in AudioValues}
    \cup {[kind |-> "input", value |-> p, flags |-> 0] : p \in InputValues}

InitCodec ==
    /\ ShmFresh
    /\ BusNew
    /\ server = ServerNew(DefaultCaps)
    /\ core_pc = "init"
    /\ relay_pc = "poll"
    /\ last_store = [by |-> "relay", from |-> STATUS_IDLE, to |-> STATUS_IDLE,
                     flip |-> 0]
    /\ ProcessorNew
    /\ ClientNew
    /\ \E in \in CodecInputs :
         /\ in.kind = "video" => in.flags \in VideoFlags(in.value)
         /\ last_call = [n |-> 0, in |-> in, bytes |-> <<>>,
                         back |-> [ok |-> FALSE]]
    /\ delta_run = 0
    /\ lost_any = FALSE
    /\ view = "live"
    /\ stale = 0

\* P.serialize()
CodecSerialize ==
    /\ last_call.n = 0
    /\ last_call' =
         [last_call EXCEPT
            !.n = 1,
            !.bytes =
               CASE last_call.in.kind = "header" ->
                        HeaderSerialize(last_call.in.value)
                 [] last_call.in.kind = "video" ->
                        VideoFramePacket_serialize(last_call.in.value)
                 [] last_call.in.kind = "audio" ->
                        AudioChunkPacket_serialize(last_call.in.value)
                 [] OTHER -> InputEventPacket_serialize(last_call.in.value)]
    /\ UNCHANGED <<last_frame, frame_count, age, gap, client, delta_run,
                   lost_any, view, stale>>
    /\ UNCHANGED <<shmVars, busVars>>

\* deserialize(bytes) (deserialize(bytes, flags) for video)
CodecDeserialize ==
    /\ last_call.n = 1
    /\ last_call' =
         [last_call EXCEPT
            !.n = 2,
            !.back =
               CASE last_call.in.kind = "header" ->
                        LET h == HeaderDeserialize(last_call.bytes)
                        IN  IF ~h.ok THEN [ok |-> FALSE]
                            ELSE [ok |-> TRUE,
                                  value |-> [packet_type |-> h.packet_type,
                                             flags |-> h.flags,
                                             sequence |-> h.sequence,
                                             length |-> h.length]]
                 [] last_call.in.kind = "video" ->
                        VideoFramePacket_deserialize(last_call.bytes,
                                                     last_call.in.flags)
                 [] last_call.in.kind = "audio" ->
                        AudioChunkPacket_deserialize(last_call.bytes)
                 [] OTHER -> InputEventPacket_deserialize(last_call.bytes)]
    /\ UNCHANGED <<last_frame, frame_count, age, gap, client, delta_run,
                   lost_any, view, stale>>
    /\ UNCHANGED <<shmVars, busVars>>

NextCodec == CodecSerialize \/ CodecDeserialize

SpecCodec == InitCodec /\ [][NextCodec]_vars

\* The number whose big-endian digits (base 256) are the bytes
BigEndianValue(bytes) ==
    LET RECURSIVE val(_)
        val(k) == IF k = 0 THEN 0 ELSE 256 * val(k - 1) + bytes[k]
    IN  val(Len(bytes))

\* C25: deserialize(serialize(P)) succeeds and gives P back for every header,
\* video, audio and input packet (video under a flags byte that carries
\* FLAG_DELTA exactly when P is a delta); a header serializes to exactly 8
\* bytes: type, flags, sequence (2 bytes, big-endian), length (4 bytes,
\* big-endian).
C25_CodecRoundTrip ==
    /\ last_call.n = 2 =>
         (last_call.back.ok /\ last_call.back.value = last_call.in.value)
    /\ (last_call.n >= 1 /\ last_call.in.kind = "header") =>
         /\ Len(last_call.bytes) = HEADER_SIZE
         /\ \A i \in 1..HEADER_SIZE : last_call.bytes[i] \in 0..255
         /\ last_call.bytes[1] = last_call.in.value.packet_type
         /\ last_call.bytes[2] = last_call.in.value.flags
         /\ BigEndianValue(SubSeq(last_call.bytes, 3, 4))
              = last_call.in.value.sequence
         /\ BigEndianValue(SubSeq(last_call.bytes, 5, 8))
              = last_call.in.value.length

\* An audio chunk with a negative and a positive sample has made the round
\* trip.
C25_Witness ==
    /\ last_call.n = 2
    /\ last_call.in.kind = "audio"
    /\ last_call.in.value.samples = <<-32768, 32767>>
    /\ last_call.back.ok

(***************************************************************************)
(* The send paths of a VideoFrame message: write_task of perun-server,     *)
(* send_broadcast of the older server, and the broadcast arm of the older  *)
(* binary's handle_websocket_client.                                       *)
(***************************************************************************)
\* Older Server::send_broadcast, VideoFrame: flags from packet.is_delta
SendBroadcastVideo(packet) ==
    LET payload == VideoFramePacket_serialize(packet)
    IN  HeaderSerialize([packet_type |-> TYPE_VIDEO_FRAME,
                         flags |-> IF packet.is_delta THEN FLAG_DELTA ELSE 0,
                         sequence |-> 0, length |-> Len(payload)]) \o payload

\* handle_websocket_client, broadcast arm: `flags: 0` for every packet type
WsClientSendVideo(packet) ==
    LET payload == VideoFramePacket_serialize(packet)
    IN  HeaderSerialize([packet_type |-> TYPE_VIDEO_FRAME, flags |-> 0,
                         sequence |-> 0, length |-> Len(payload)]) \o payload

SendPaths == {"write_task", "send_broadcast", "handle_websocket_client"}

\* The packets process() makes of a frame that follows another frame (or
\* none), inside the keyframe interval or past it.
ProcessorPackets ==
    UNION {{process(lastf, elapsed, g[1], g[2], frame).packet :
               lastf \in {<<>>} \cup DeltaFramesOf(g[1], g[2]),
               frame \in DeltaFramesOf(g[1], g[2]),
               elapsed \in {0, force_keyframe_interval}} :
           g \in Geoms \ {<<0, 0>>}}

\* A VideoFrame message is on the bus; no session has written it yet.
InitWire ==
    /\ ShmFresh
    /\ BusNew
    /\ server = ServerNew(DefaultCaps)
    /\ core_pc = "init"
    /\ relay_pc = "poll"
    /\ last_store = [by |-> "relay", from |-> STATUS_IDLE, to |-> STATUS_IDLE,
                     flip |-> 0]
    /\ ProcessorNew
    /\ ClientNew
    /\ \E packet \in ProcessorPackets :
         last_call = [n |-> 0, packet |-> packet, path |-> "none",
                      wire |-> <<>>]
    /\ delta_run = 0
    /\ lost_any = FALSE
    /\ view = "live"
    /\ stale = 0

\* A session on one of the send paths receives the message and builds the
\* bytes it sends.
WireSend(path) ==
    /\ last_call.n = 0
    /\ last_call' =
         [last_call EXCEPT
            !.n = 1, !.path = path,
            !.wire = CASE path = "write_task" -> WriteVideo(last_call.packet)
                       [] path = "send_broadcast" ->
                              SendBroadcastVideo(last_call.packet)
                       [] OTHER -> WsClientSendVideo(last_call.packet)]
    /\ UNCHANGED <<last_frame, frame_count, age, gap, client, delta_run,
                   lost_any, view, stale>>
    /\ UNCHANGED <<shmVars, busVars>>

NextWire == \E path \in SendPaths : WireSend(path)

SpecWire == InitWire /\ [][NextWire]_vars

\* C23: on every send path the packet written for a VideoFrame message has a
\* header whose flags carry FLAG_DELTA exactly when the packet is a delta
\* (the processor's flags byte where the packet carries one), whose length
\* is the payload length, and a payload of width, height and the packet's
\* data unchanged.
C23_WireCarriesPacketVerbatim ==
    last_call.n = 1 =>
        LET header == HeaderDeserialize(last_call.wire)
            payload == SubSeq(last_call.wire, HEADER_SIZE + 1,
                              Len(last_call.wire))
        IN  /\ header.ok
            /\ (And8(header.flags, FLAG_DELTA) # 0) = last_call.packet.is_delta
            /\ last_call.path = "write_task" =>
                   header.flags = last_call.packet.extra_flags
            /\ header.length = Len(payload)
            /\ payload = BE16(last_call.packet.width)
                           \o BE16(last_call.packet.height)
                           \o last_call.packet.data

(***************************************************************************)
(* read_task of handle_client: reads, the pending buffer, the packet loop. *)
(***************************************************************************)
MaxPackets == 2

\* `let mut recv_buf = vec![0u8; 65536]`
RECV_BUF_LEN == 65536

TYPE_INPUT_EVENT == 3
TYPE_CONFIG == 4
TYPE_DEBUG_INFO == 5

\* A packet as the viewer puts it on the wire: header (flags 0, sequence 0,
\* length of the payload) and payload. The type byte is written as it is.
PacketBytes(p) ==
    HeaderSerialize([packet_type |-> p.packet_type, flags |-> 0,
                     sequence |-> 0, length |-> Len(p.payload)]) \o p.payload

RECURSIVE StreamBytes(_)
StreamBytes(packets) ==
    IF packets = <<>> THEN <<>>
    ELSE PacketBytes(Head(packets)) \o StreamBytes(Tail(packets))

\* Packets a viewer sends: two input events, a config packet, a debug packet
\* without payload, and two packets whose type byte is no PacketType.
GoodPackets ==
    {[packet_type |-> TYPE_INPUT_EVENT, payload |-> BE16(1) \o BE16(0)],
     [packet_type |-> TYPE_INPUT_EVENT, payload |-> BE16(258) \o BE16(0)],
     [packet_type |-> TYPE_CONFIG, payload |-> <<7>>],
     [packet_type |-> TYPE_DEBUG_INFO, payload |-> <<>>]}

BadPackets ==
    {[packet_type |-> 0, payload |-> <<>>],
     [packet_type |-> 9, payload |-> <<7>>]}

Streams ==
    UNION {[1..n -> GoodPackets \cup BadPackets] : n \in 1..MaxPackets}

\* The viewer, past the handshake, sends its packets.
ViewerSend(c) ==
    /\ sess[c].st \in {"recv", "write"}
    /\ ~sess[c].reader.posted
    /\ sess' = [sess EXCEPT ![c].reader.posted = TRUE,
                            ![c].reader.inbox = StreamBytes(sess[c].reader.sent)]
    /\ UNCHANGED <<bus_log, events, poller_pc, loop_pc, loop_event, server>>
    /\ UNCHANGED <<shmVars, procVars>>

\* The viewer closes its side of the connection after what it has sent.
ViewerClose(c) ==
    /\ sess[c].st \in {"recv", "write"}
    /\ sess[c].reader.posted
    /\ ~sess[c].reader.eof
    /\ sess' = [sess EXCEPT ![c].reader.eof = TRUE]
    /\ UNCHANGED <<bus_log, events, poller_pc, loop_pc, loop_event, server>>
    /\ UNCHANGED <<shmVars, procVars>>

\* reader.read(&mut recv_buf) on a TcpStream returns Ok(n), n > 0: any
\* non-empty prefix of what has arrived that fits the buffer is appended to
\* pending_data.
SessRead(c) ==
    /\ sess[c].st \in {"recv", "write"}
    /\ sess[c].transport = "tcp"
    /\ sess[c].reader.pc = "read"
    /\ \E n \in 1..Min(Len(sess[c].reader.inbox), RECV_BUF_LEN) :
         sess' = [sess EXCEPT
                    ![c].reader.pending = @ \o SubSeq(sess[c].reader.inbox, 1, n),
                    ![c].reader.got = @ \o SubSeq(sess[c].reader.inbox, 1, n),
                    ![c].reader.inbox = SubSeq(@, n + 1, Len(@)),
                    ![c].reader.reads = @ + 1,
                    ![c].reader.pc = "parse"]
    /\ UNCHANGED <<bus_log, events, poller_pc, loop_pc, loop_event, server>>
    /\ UNCHANGED <<shmVars, procVars>>

\* reader.read returns Ok(0): read_task breaks and returns, select! drops
\* write_task, and the client is taken out of the registry.
SessReadEof(c) ==
    /\ sess[c].st \in {"recv", "write"}
    /\ sess[c].transport = "tcp"
    /\ sess[c].reader.pc = "read"
    /\ sess[c].reader.inbox = <<>>
    /\ sess[c].reader.eof
    /\ sess' = [sess EXCEPT ![c] = Dropped([@ EXCEPT !.st = "closing",
                                                     !.msg = 0,
                                                     !.reader.pc = "done",
                                                     !.reader.zero = TRUE])]
    /\ server' = [server EXCEPT !.clients =
                      {cs \in @ : cs.id # sess[c].id}]
    /\ UNCHANGED <<bus_log, events, poller_pc, loop_pc, loop_event>>
    /\ UNCHANGED <<shmVars, procVars>>

\* Mutant of Drained: only the header is taken off the buffer.
DrainedHeader(pending_data, total_len) ==
    SubSeq(pending_data, HEADER_SIZE + 1, Len(pending_data))

\* pending_data.drain(..total_len)
Drained(pending_data, total_len) ==
    SubSeq(pending_data, total_len + 1, Len(pending_data))

\* The events the match on header.packet_type sends: InputEventReceived for
\* an input packet that parses; the other types a viewer sends here are
\* logged. (No viewer of this model sends VideoFrame packets.)
DispatchEvents(id, header, payload) ==
    IF header.packet_type = TYPE_INPUT_EVENT
          /\ InputEventPacket_deserialize(payload).ok
    THEN <<[kind |-> "input", id |-> id,
            buttons |-> InputEventPacket_deserialize(payload).value.buttons,
            caps |-> 0]>>
    ELSE <<>>

\* One pass of `while pending_data.len() >= PacketHeader::SIZE { .. }`: the
\* loop is left when fewer than 8 bytes are pending, when the header does not
\* parse (`Err(_) => break`), or when the packet is not complete; else the
\* packet is matched on its type, its event is sent (the send waits for room
\* in the channel) and its bytes are drained. Leaving the loop leads back to
\* reader.read.
SessParse(c) ==
    /\ sess[c].st \in {"recv", "write"}
    /\ sess[c].reader.pc = "parse"
    /\ LET pending_data == sess[c].reader.pending
           header == HeaderDeserialize(pending_data)
           total_len == HEADER_SIZE + header.length
       IN  IF Len(pending_data) < HEADER_SIZE
           THEN /\ sess' = [sess EXCEPT ![c].reader.pc = "read"]
                /\ UNCHANGED events
           ELSE IF ~header.ok
           THEN /\ sess' = [sess EXCEPT ![c].reader.pc = "read"]
                /\ UNCHANGED events
           ELSE IF Len(pending_data) < total_len
           THEN /\ sess' = [sess EXCEPT ![c].reader.pc = "read"]
                /\ UNCHANGED events
           ELSE LET payload == SubSeq(pending_data, HEADER_SIZE + 1, total_len)
                    sends == DispatchEvents(sess[c].id, header, payload)
                IN  /\ Len(events) + Len(sends) <= MaxEvents
                    /\ events' = events \o sends
                    /\ sess' = [sess EXCEPT
                          ![c].reader.handled =
                              Append(@, [packet_type |-> header.packet_type,
                                         payload |-> payload]),
                          ![c].reader.pending = Drained(@, total_len)]
    /\ UNCHANGED <<bus_log, poller_pc, loop_pc, loop_event, server>>
    /\ UNCHANGED <<shmVars, procVars>>

\* One TCP viewer that will send some stream of packets once it is through
\* the handshake.
InitRead ==
    /\ ShmFresh
    /\ ProcNew
    /\ bus_log = <<>>
    /\ events = <<>>
    /\ poller_pc = "poll"
    /\ loop_pc = "recv"
    /\ loop_event = NoEvent
    /\ \E stream \in Streams :
         sess = [c \in Clients |->
                   IF c = 1 THEN [SessionOff EXCEPT !.reader.sent = stream]
                   ELSE SessionOff]
    /\ server = ServerNew(DefaultCaps)
    /\ core_pc = "init"
    /\ relay_pc = "poll"
    /\ last_store = [by |-> "relay", from |-> STATUS_IDLE, to |-> STATUS_IDLE,
                     flip |-> 0]

NextRead ==
    \/ SessAccept(1, {"tcp"})
    \/ SessHello(1, {create_hello(1, CAP_DELTA)}, {"ok"})
    \/ SessNotify(1)
    \/ SessSubscribe(1)
    \/ ViewerSend(1)
    \/ ViewerClose(1)
    \/ SessRead(1)
    \/ SessParse(1)
    \/ SessReadEof(1)
    \/ SessRecv(1)
    \/ SessCleanup(1)
    \/ LoopRecv
    \/ LoopHandle

SpecRead == InitRead /\ [][NextRead]_vars

\* Every packet of the stream has a type byte in 0x01..0x05.
WellFormed(packets) ==
    \A i \in 1..Len(packets) : packets[i] \in GoodPackets

\* s is the first Len(s) entries of t
IsPrefix(s, t) == Len(s) <= Len(t) /\ s = SubSeq(t, 1, Len(s))

\* C21: however the stream of a viewer's well-formed packets is cut into
\* reads, the packets dispatched are the first packets of the stream, in
\* order and each once; the bytes drained are exactly the bytes of the
\* dispatched packets (dispatched, pending and unread bytes make up the
\* stream); and whenever the reader waits in read, every packet whose last
\* byte has been read has been dispatched.
C21_FramingOverSplitReads ==
    \A c \in Clients :
        LET r == sess[c].reader
        IN  (r.posted /\ WellFormed(r.sent)) =>
              /\ IsPrefix(r.handled, r.sent)
              /\ StreamBytes(r.handled) \o r.pending \o r.inbox
                   = StreamBytes(r.sent)
              /\ (r.pc \in {"read", "done"} /\ Len(r.handled) < Len(r.sent)) =>
                     Len(r.pending)
                       < Len(PacketBytes(r.sent[Len(r.handled) + 1]))

\* A stream of two packets has been dispatched whole after it arrived in
\* five reads, so that a packet was cut across reads.
C21_Witness ==
    LET r == sess[1].reader
    IN  /\ WellFormed(r.sent)
        /\ Len(r.sent) = 2
        /\ r.handled = r.sent
        /\ r.reads = 5
        /\ r.inbox = <<>>
        /\ r.pc = "read"
        /\ sess[1].st = "recv"

\* C22: when the pending buffer starts with a header whose type byte is not
\* in 0x01..0x05, the reader does not go back to reading: the session is
\* being torn down (client removed) or is closed.
C22_BadTypeClosesConnection ==
    \A c \in Clients :
        LET r == sess[c].reader
        IN  (/\ r.pc = "read"
             /\ Len(r.pending) >= HEADER_SIZE
             /\ r.pending[1] \notin 1..5) =>
                /\ sess[c].st \in {"closing", "closed"}
                /\ \A cs \in server.clients : cs.id # sess[c].id

(***************************************************************************)
(* The read side of the WebSocket adapter (WebSocketConnection::poll_read) *)
(* under read_task.                                                        *)
(***************************************************************************)
MaxMessages == 3

\* `let mut handshake_buf = vec![0u8; 256]`
HANDSHAKE_BUF_LEN == 256

InputPacketBytes ==
    PacketBytes([packet_type |-> TYPE_INPUT_EVENT,
                 payload |-> BE16(1) \o BE16(0)])

\* Messages a WebSocket viewer sends: binary messages (an empty one, one
\* that holds a whole packet, two that hold the halves of a packet), text,
\* ping, pong and close; `error` is the stream failing.
BinaryMessages ==
    {[kind |-> "binary", data |-> d] :
        d \in {<<>>, InputPacketBytes, SubSeq(InputPacketBytes, 1, 5),
               SubSeq(InputPacketBytes, 6, 12)}}

ControlMessages ==
    {[kind |-> k, data |-> <<>>] : k \in {"text", "ping", "pong"}}

EndMessages == {[kind |-> k, data |-> <<>>] : k \in {"close", "error"}}

MessagePlans ==
    UNION {[1..n -> BinaryMessages \cup ControlMessages \cup EndMessages] :
             n \in 1..MaxMessages}

\* The buffer sizes poll_read is called with: read_task's recv_buf, the
\* handshake buffer, and callers with less room than a message.
ReadSizes == {1, 3, HANDSHAKE_BUF_LEN, RECV_BUF_LEN}

\* Mutant of BufferAfterCopy: the buffer is cleared after every copy.
BufferAlwaysCleared(read_buffer, read_pos) ==
    [read_buffer |-> <<>>, read_pos |-> 0]

\* poll_read, after the copy: `if self.read_pos >= self.read_buffer.len()
\* { self.read_buffer.clear(); self.read_pos = 0; }`
BufferAfterCopy(read_buffer, read_pos) ==
    IF read_pos >= Len(read_buffer)
    THEN [read_buffer |-> <<>>, read_pos |-> 0]
    ELSE [read_buffer |-> read_buffer, read_pos |-> read_pos]

\* poll_read: `Poll::Ready(Some(Ok(m)))` after the Binary and Close arms:
\* text, ping and pong
Ignored(kind) == kind \in {"text", "ping", "pong"}

\* WebSocketConnection::poll_read with `remaining` bytes of room, on the
\* adapter state r (frames, eof, read_buffer, read_pos, open). The result is
\* the new adapter state and what the poll returned: "ready" with the bytes
\* put in the caller's buffer (none: end of file), "err", or "pending".
RECURSIVE poll_read(_, _)
poll_read(r, remaining) ==
    IF r.read_pos < Len(r.read_buffer)
    THEN LET to_copy == Min(Len(r.read_buffer) - r.read_pos, remaining)
             after == BufferAfterCopy(r.read_buffer, r.read_pos + to_copy)
         IN  [r |-> [r EXCEPT !.read_buffer = after.read_buffer,
                              !.read_pos = after.read_pos],
              poll |-> "ready",
              bytes |-> SubSeq(r.read_buffer, r.read_pos + 1,
                               r.read_pos + to_copy)]
    ELSE IF r.frames = <<>>
    THEN IF r.eof
         THEN [r |-> [r EXCEPT !.open = FALSE], poll |-> "ready",
               bytes |-> <<>>]
         ELSE [r |-> r, poll |-> "pending", bytes |-> <<>>]
    ELSE LET message == Head(r.frames)
             polled == [r EXCEPT !.frames = Tail(@)]
         IN  IF message.kind = "binary"
             THEN poll_read([polled EXCEPT !.read_buffer = message.data,
                                           !.read_pos = 0], remaining)
             ELSE IF message.kind = "close"
             THEN [r |-> [polled EXCEPT !.open = FALSE], poll |-> "ready",
                   bytes |-> <<>>]
             ELSE IF Ignored(message.kind)
             THEN [r |-> polled, poll |-> "pending", bytes |-> <<>>]
             ELSE [r |-> polled, poll |-> "err", bytes |-> <<>>]

\* The WebSocket viewer, past the handshake, sends its messages.
ViewerSendWs(c) ==
    /\ sess[c].st \in {"recv", "write"}
    /\ ~sess[c].reader.posted
    /\ sess' = [sess EXCEPT ![c].reader.posted = TRUE,
                            ![c].reader.frames = sess[c].reader.sent]
    /\ UNCHANGED <<bus_log, events, poller_pc, loop_pc, loop_event, server>>
    /\ UNCHANGED <<shmVars, procVars>>

\* reader.read(&mut buf) on the WebSocket adapter, with a buffer of one of
\* `sizes` bytes: the poll is pending (a message that is ignored may have
\* been taken off the stream), or the read returns bytes, which read_task
\* appends to pending_data, or it returns Ok(0) or Err and read_task breaks:
\* the task returns, select! drops write_task, the client is taken out of
\* the registry.
SessReadWs(c, sizes) ==
    /\ sess[c].st \in {"recv", "write"}
    /\ sess[c].transport = "ws"
    /\ sess[c].reader.pc = "read"
    /\ \E remaining \in sizes :
       \E res \in {poll_read(sess[c].reader, remaining)} :
         /\ res.r # sess[c].reader \/ res.poll # "pending"
         /\ IF res.poll = "pending"
            THEN /\ sess' = [sess EXCEPT ![c].reader = res.r]
                 /\ UNCHANGED server
            ELSE IF res.poll = "ready" /\ res.bytes # <<>>
            THEN /\ sess' = [sess EXCEPT ![c].reader =
                               [res.r EXCEPT !.pending = @ \o res.bytes,
                                             !.got = @ \o res.bytes,
                                             !.reads = @ + 1,
                                             !.pc = "parse"]]
                 /\ UNCHANGED server
            ELSE /\ sess' = [sess EXCEPT ![c] =
                               Dropped([@ EXCEPT
                                   !.st = "closing", !.msg = 0,
                                   !.reader = [res.r EXCEPT
                                       !.pc = "done",
                                       !.zero = (res.poll = "ready")]])]
                 /\ server' = [server EXCEPT !.clients =
                                  {cs \in @ : cs.id # sess[c].id}]
    /\ UNCHANGED <<bus_log, events, poller_pc, loop_pc, loop_event>>
    /\ UNCHANGED <<shmVars, procVars>>

\* One WebSocket viewer that will send some sequence of messages once it is
\* through the handshake.
InitWs ==
    /\ ShmFresh
    /\ ProcNew
    /\ bus_log = <<>>
    /\ events = <<>>
    /\ poller_pc = "poll"
    /\ loop_pc = "recv"
    /\ loop_event = NoEvent
    /\ \E plan \in MessagePlans :
         sess = [c \in Clients |->
                   IF c = 1 THEN [SessionOff EXCEPT !.reader.sent = plan]
                   ELSE SessionOff]
    /\ server = ServerNew(DefaultCaps)
    /\ core_pc = "init"
    /\ relay_pc = "poll"
    /\ last_store = [by |-> "relay", from |-> STATUS_IDLE, to |-> STATUS_IDLE,
                     flip |-> 0]

NextWs ==
    \/ SessAccept(1, {"ws"})
    \/ SessHello(1, {create_hello(1, CAP_DELTA)}, {"ok"})
    \/ SessNotify(1)
    \/ SessSubscribe(1)
    \/ ViewerSendWs(1)
    \/ ViewerClose(1)
    \/ SessReadWs(1, ReadSizes)
    \/ SessParse(1)
    \/ SessCleanup(1)
    \/ LoopRecv
    \/ LoopHandle

SpecWs == InitWs /\ [][NextWs]_vars

\* The messages of the plan that poll_read has taken off the stream
Polled(r) ==
    IF r.posted THEN SubSeq(r.sent, 1, Len(r.sent) - Len(r.frames)) ELSE <<>>

\* The payloads of the binary messages among them, one after the other
RECURSIVE BinaryBytes(_)
BinaryBytes(messages) ==
    IF messages = <<>> THEN <<>>
    ELSE (IF Head(messages).kind = "binary" THEN Head(messages).data
          ELSE <<>>) \o BinaryBytes(Tail(messages))

\* The stream has ended for the adapter: the last message polled is a close
\* frame, or nothing is left and the peer is gone.
StreamEnded(r) ==
    \/ (Polled(r) # <<>> /\ Polled(r)[Len(Polled(r))].kind = "close")
    \/ (r.frames = <<>> /\ r.eof)

\* C27: the bytes the reads have returned, followed by what is still in
\* read_buffer, are the payloads of the binary messages received so far, in
\* order (nothing lost, nothing twice), whatever the sizes of the caller's
\* buffers; and a read returns zero bytes only at a close frame or at the end
\* of the stream, never for an empty binary message.
C27_WsReadsConcatenateBinary ==
    \A c \in Clients :
        LET r == sess[c].reader
        IN  /\ r.got \o SubSeq(r.read_buffer, r.read_pos + 1,
                               Len(r.read_buffer))
                 = BinaryBytes(Polled(r))
            /\ r.zero => StreamEnded(r)

\* An empty binary message and the two halves of a packet have been read (in
\* more reads than messages), and the reader has not seen end of file.
C27_Witness ==
    LET r == sess[1].reader
    IN  /\ r.sent = <<[kind |-> "binary", data |-> <<>>],
                      [kind |-> "binary",
                       data |-> SubSeq(InputPacketBytes, 1, 5)],
                      [kind |-> "binary",
                       data |-> SubSeq(InputPacketBytes, 6, 12)]>>
        /\ r.got = InputPacketBytes
        /\ r.reads > 3
        /\ ~r.zero
        /\ sess[1].st = "recv"

(***************************************************************************)
(* The older binary's WebSocket session (handle_websocket_client), which   *)
(* reads with recv_binary.                                                 *)
(***************************************************************************)
\* WebSocketConnection::recv_binary on the adapter state r: the new state and
\* the result, Ok(Some(data)) ("some"), Ok(None) ("none") or Err ("err").
\* With nothing to poll it waits (no result).
recv_binary(r) ==
    IF ~r.open THEN [r |-> r, result |-> "err", data |-> <<>>]
    ELSE IF r.frames = <<>>
    THEN [r |-> [r EXCEPT !.open = FALSE], result |-> "none", data |-> <<>>]
    ELSE LET message == Head(r.frames)
             polled == [r EXCEPT !.frames = Tail(@)]
         IN  IF message.kind = "binary"
             THEN [r |-> polled, result |-> "some", data |-> message.data]
             ELSE IF message.kind = "close"
             THEN [r |-> [polled EXCEPT !.open = FALSE], result |-> "none",
                   data |-> <<>>]
             ELSE IF message.kind \in {"text", "ping", "pong"}
             THEN [r |-> polled, result |-> "none", data |-> <<>>]
             ELSE [r |-> [polled EXCEPT !.open = FALSE], result |-> "err",
                   data |-> <<>>]

\* handle_websocket_client, handshake: the HELLO is received, process_hello
\* accepts it, the OK is sent with send_binary, and the session subscribes.
LegacyWsHello(c) ==
    /\ sess[c].st = "hello"
    /\ sess[c].transport = "ws"
    /\ \E res \in {process_hello(create_hello(1, CAP_DELTA), DefaultCaps)} :
         sess' = [sess EXCEPT
                    ![c].hello = create_hello(1, CAP_DELTA),
                    ![c].resp = create_ok(res.version, res.capabilities),
                    ![c].caps = res.capabilities,
                    ![c].rx = Append(@, <<0>>),
                    ![c].next = BusTail, ![c].sub = BusTail,
                    ![c].st = "recv"]
    /\ UNCHANGED <<bus_log, events, poller_pc, loop_pc, loop_event, server>>
    /\ UNCHANGED <<shmVars, procVars>>

\* The messages the receive arm publishes for a binary message: an input
\* event whose header parses is broadcast to all but its sender.
LegacyWsPublish(id, data) ==
    IF /\ Len(data) >= HEADER_SIZE
       /\ HeaderDeserialize(data).ok
       /\ HeaderDeserialize(data).packet_type = TYPE_INPUT_EVENT
       /\ InputEventPacket_deserialize(
              SubSeq(data, HEADER_SIZE + 1, Len(data))).ok
    THEN <<[kind |-> "input", exclude |-> id,
            buttons |-> InputEventPacket_deserialize(
                            SubSeq(data, HEADER_SIZE + 1, Len(data))
                        ).value.buttons]>>
    ELSE <<>>

\* handle_websocket_client, receive arm of the select!: Ok(Some(data)) is
\* looked at as one packet; Ok(None) and Err both `break`, and the function
\* returns.
LegacyWsRecv(c) ==
    /\ sess[c].st = "recv"
    /\ sess[c].transport = "ws"
    /\ sess[c].reader.frames # <<>> \/ sess[c].reader.eof
    /\ \E res \in {recv_binary(sess[c].reader)} :
         IF res.result = "some"
         THEN /\ sess' = [sess EXCEPT ![c].reader =
                            [res.r EXCEPT !.got = @ \o res.data,
                                          !.reads = @ + 1]]
              /\ bus_log' = bus_log \o LegacyWsPublish(sess[c].id, res.data)
         ELSE /\ sess' = [sess EXCEPT ![c].st = "closed",
                                      ![c].reader = [res.r EXCEPT !.pc = "done"]]
              /\ UNCHANGED bus_log
    /\ UNCHANGED <<events, poller_pc, loop_pc, loop_event, server>>
    /\ UNCHANGED <<shmVars, procVars>>

\* The older binary and one WebSocket viewer that will send some sequence of
\* messages once it is through the handshake.
InitWsLegacy ==
    /\ ShmFresh
    /\ ProcNew
    /\ bus_log = <<>>
    /\ events = <<>>
    /\ poller_pc = "poll"
    /\ loop_pc = "recv"
    /\ loop_event = NoEvent
    /\ \E plan \in MessagePlans :
         sess = [c \in Clients |->
                   IF c = 1 THEN [SessionOff EXCEPT !.reader.sent = plan]
                   ELSE SessionOff]
    /\ server = LegacyNew
    /\ core_pc = "init"
    /\ relay_pc = "poll"
    /\ last_store = [by |-> "relay", from |-> STATUS_IDLE, to |-> STATUS_IDLE,
                     flip |-> 0]

\* The viewer's connection is accepted once.
NextWsLegacy ==
    \/ (sess[1].st = "off" /\ LegacyAcceptWs(1))
    \/ LegacyWsHello(1)
    \/ ViewerSendWs(1)
    \/ ViewerClose(1)
    \/ LegacyWsRecv(1)
    \/ SessRecv(1)

SpecWsLegacy == InitWsLegacy /\ [][NextWsLegacy]_vars

\* C26: on a WebSocket connection a session whose reader has returned has
\* polled a close frame, the end of the stream or a transport error, never
\* just text, ping or pong messages; and the bytes handed to the framing
\* are the payloads of the binary messages alone.
C26_ControlMessagesIgnored ==
    \A c \in Clients :
        LET r == sess[c].reader
        IN  /\ r.pc = "done" =>
                  \/ StreamEnded(r)
                  \/ (Polled(r) # <<>>
                        /\ Polled(r)[Len(Polled(r))].kind = "error")
            /\ r.got \o SubSeq(r.read_buffer, r.read_pos + 1,
                               Len(r.read_buffer))
                 = BinaryBytes(Polled(r))

(***************************************************************************)
(* ClientInner::render_frame on its own, on packets of every kind.         *)
(***************************************************************************)
MaxRenders == 3

\* Geometries a video packet may name
RenderGeoms == {<<0, 0>>, <<1, 1>>, <<2, 1>>, <<1, 2>>}

\* Payloads after decompression: whole frames of zero to MaxPixels pixels and
\* a payload that ends inside a pixel. Nothing ties the payload to the
\* geometry of the packet.
RenderPayloads ==
    UNION {FramesOf(k, 1) : k \in 0..MaxPixels} \cup {<<255, 128, 1>>}

\* The VideoFramePacket values deserialize can hand to render_frame
RenderPackets ==
    {[width |-> g[1], height |-> g[2], is_delta |-> d, data |-> p] :
        g \in RenderGeoms, d \in BOOLEAN, p \in RenderPayloads}

\* A viewer as PerunClient::new leaves it
InitRender ==
    /\ ShmFresh
    /\ BusNew
    /\ server = ServerNew(DefaultCaps)
    /\ core_pc = "init"
    /\ relay_pc = "poll"
    /\ last_store = [by |-> "relay", from |-> STATUS_IDLE, to |-> STATUS_IDLE,
                     flip |-> 0]
    /\ ProcessorNew
    /\ ClientNew
    /\ last_call = [n |-> 0, frame |-> [width |-> 0, height |-> 0,
                                        is_delta |-> FALSE, data |-> <<>>],
                    before |-> [width |-> 0, height |-> 0,
                                image_data_buffer |-> <<>>,
                                previous_frame_buffer |-> <<>>]]
    /\ delta_run = 0
    /\ lost_any = FALSE
    /\ view = "live"
    /\ stale = 0

\* The onmessage callback hands one packet to render_frame
RenderCall ==
    /\ last_call.n < MaxRenders
    /\ \E frame \in RenderPackets :
         /\ client' = render_frame(client, frame)
         /\ last_call' = [n |-> last_call.n + 1, frame |-> frame,
                          before |-> client]
    /\ UNCHANGED <<last_frame, frame_count, age, gap, delta_run, lost_any,
                   view, stale>>
    /\ UNCHANGED <<shmVars, busVars>>

SpecRender == InitRender /\ [][RenderCall]_vars

\* Did the last packet name another geometry than the viewer had?
GeometryChanged ==
    \/ last_call.before.width # last_call.frame.width
    \/ last_call.before.height # last_call.frame.height

\* C31: after every render_frame call, whatever the packet (keyframe, delta,
\* geometry change, payload of wrong length), previous_frame_buffer equals
\* image_data_buffer byte for byte.
C31_PreviousEqualsImage ==
    last_call.n > 0 =>
        /\ Len(client.previous_frame_buffer) = Len(client.image_data_buffer)
        /\ \A i \in 1..Len(client.image_data_buffer) :
             client.previous_frame_buffer[i] = client.image_data_buffer[i]

\* A delta of wrong length that also changes the geometry has been rendered
\* on top of an earlier frame that was not blank.
C31_Witness ==
    /\ last_call.n >= 2
    /\ last_call.frame.is_delta
    /\ GeometryChanged
    /\ Len(last_call.frame.data) # Len(client.image_data_buffer)
    /\ Len(last_call.frame.data) > 0
    /\ last_call.before.image_data_buffer # <<>>
    /\ client.image_data_buffer # last_call.before.image_data_buffer

\* The buffers the copy or the delta starts from: those of before the call,
\* cut or extended (image with 255, previous frame with 0) to the new size
\* when the geometry changed.
Started(buf, fill) ==
    LET size == last_call.frame.width * last_call.frame.height * 4
    IN  [i \in 1..size |-> IF i <= Len(buf) THEN buf[i] ELSE fill]

\* C35: after every render_frame call both buffers have length
\* width*height*4 for the geometry of the packet just rendered; new geometry
\* resizes both buffers before the delta or the copy; a keyframe whose
\* payload length differs from width*height*4 leaves the image bytes alone.
C35_BuffersFollowGeometry ==
    last_call.n > 0 =>
        LET frame == last_call.frame
            size == frame.width * frame.height * 4
            img0 == Started(last_call.before.image_data_buffer, 255)
            prev0 == Started(last_call.before.previous_frame_buffer, 0)
        IN  /\ client.width = frame.width /\ client.height = frame.height
            /\ Len(client.image_data_buffer) = size
            /\ Len(client.previous_frame_buffer) = size
            /\ (~GeometryChanged) =>
                  /\ img0 = last_call.before.image_data_buffer
                  /\ prev0 = last_call.before.previous_frame_buffer
            /\ (~frame.is_delta /\ Len(frame.data) # size) =>
                  client.image_data_buffer = img0
            /\ (~frame.is_delta /\ Len(frame.data) = size) =>
                  client.image_data_buffer = frame.data
            /\ frame.is_delta =>
                  \A i \in 1..size :
                     client.image_data_buffer[i] =
                        IF i <= Len(frame.data)
                        THEN Xor8(prev0[i], frame.data[i]) ELSE img0[i]

\* A keyframe of wrong payload length arrived with a new, larger geometry:
\* the image kept its bytes and was extended.
C35_Witness ==
    /\ last_call.n >= 2
    /\ ~last_call.frame.is_delta
    /\ GeometryChanged
    /\ Len(last_call.frame.data) # Len(client.image_data_buffer)
    /\ Len(last_call.before.image_data_buffer) > 0
    /\ Len(client.image_data_buffer)
         > Len(last_call.before.image_data_buffer)
    /\ last_call.before.image_data_buffer[1] # 255

(***************************************************************************)
(* FrameProcessor::process: the choice, the flags, the state it leaves.    *)
(***************************************************************************)
\* What the last call compressed, or would have: the frame passed in, and
\* its delta against the last_frame the call found.
CompressedFull == compress_prepend_size(last_call.frame)

CompressedDelta ==
    compress_prepend_size(
        compute_delta_simd(last_call.frame, last_call.previous))

\* The last call could take the delta: no keyframe forced, equal lengths
DeltaPossible ==
    /\ last_call.elapsed < force_keyframe_interval
    /\ Len(last_call.previous) = Len(last_call.frame)

\* C32: process() emits a delta exactly when no keyframe is forced,
\* last_frame is as long as the current frame and the compressed delta is
\* strictly smaller than the compressed full frame; on equal sizes the full
\* frame is emitted.
C32_DeltaExactlyWhenStrictlySmaller ==
    last_call.n > 0 =>
        /\ last_call.is_delta <=>
              (DeltaPossible /\ Len(CompressedDelta) < Len(CompressedFull))
        /\ ~last_call.panicked =>
              /\ last_call.packet.is_delta = last_call.is_delta
              /\ last_call.packet.data =
                    IF last_call.is_delta THEN CompressedDelta
                    ELSE CompressedFull

\* A call on a frame with bytes, with the delta possible and the two
\* compressed sizes equal: the full frame came out.
C32_Witness ==
    /\ last_call.n > 1
    /\ ~last_call.panicked
    /\ DeltaPossible
    /\ Len(last_call.frame) > 0
    /\ Len(CompressedDelta) = Len(CompressedFull)
    /\ CompressedDelta # CompressedFull
    /\ ~last_call.packet.is_delta
    /\ last_call.packet.data = CompressedFull

\* C33: the flags byte process() returns has FLAG_COMPRESS_1 set, FLAG_DELTA
\* set exactly when the payload is the compressed delta, and no other bit;
\* it equals packet.extra_flags, and packet.is_delta agrees with FLAG_DELTA.
C33_FlagsDescribePayload ==
    (last_call.n > 0 /\ ~last_call.panicked) =>
        /\ Bit(last_call.flags, FLAG_COMPRESS_1) = 1
        /\ Bit(last_call.flags, FLAG_DELTA) = 1 <=>
              (DeltaPossible /\ last_call.packet.data = CompressedDelta)
        /\ \A k \in {4, 8, 16, 32, 64, 128} : Bit(last_call.flags, k) = 0
        /\ last_call.flags \in 0..255
        /\ last_call.packet.extra_flags = last_call.flags
        /\ last_call.packet.is_delta =
              (Bit(last_call.flags, FLAG_DELTA) = 1)

\* A delta packet has been returned with both flags set, after a keyframe
\* with FLAG_COMPRESS_1 alone.
C33_Witness ==
    /\ last_call.n > 1
    /\ ~last_call.panicked
    /\ last_call.packet.is_delta
    /\ last_call.flags = FLAG_DELTA + FLAG_COMPRESS_1
    /\ last_call.packet.data = CompressedDelta
    /\ Len(last_call.frame) > 0

\* C34: after every process() call last_frame is the frame passed in, on the
\* keyframe and on the delta path; last_keyframe is advanced exactly by the
\* calls that emit a keyframe and left alone by a call that emits a delta;
\* frame_count has gone up by one.
C34_StateAfterCall ==
    (last_call.n > 0 /\ ~last_call.panicked) =>
        /\ last_frame = last_call.frame
        /\ frame_count = last_call.count + 1
        /\ (gap = 0 /\ ~last_call.is_delta) => age = 0
        /\ (gap = 0 /\ last_call.is_delta) => age = last_call.elapsed

\* A delta has just been emitted some time after the last keyframe, for a
\* frame that differs from the one before: last_keyframe stayed.
C34_Witness ==
    /\ last_call.n > 1
    /\ ~last_call.panicked
    /\ last_call.is_delta
    /\ gap = 0
    /\ last_call.elapsed > 0
    /\ age = last_call.elapsed
    /\ last_call.frame # last_call.previous
    /\ last_frame = last_call.frame

(***************************************************************************)
(* A failed emulator step, the handoff over time, start-up stores.         *)
(***************************************************************************)
\* C39: if core.update fails while the core holds the buffer, the partly
\* written frame is never published: the failure itself stores nothing, and
\* from then on status_flag stays CORE_WRITING, the relay never enters its
\* copy, and neither the published frame nor the relay's buffer changes.
C39_FailedFrameNeverPublished ==
    /\ [](core_error # "none" =>
            /\ status_flag = STATUS_CORE_WRITING
            /\ relay_pc # "copy")
    /\ [][ /\ (core_error = "none" /\ core_error' # "none") =>
                /\ core_pc = "write"
                /\ status_flag = STATUS_CORE_WRITING
                /\ UNCHANGED <<status_flag, frame_buffer, published, taken,
                               buffer>>
           /\ core_error # "none" =>
                UNCHANGED <<status_flag, frame_buffer, published, taken,
                            buffer, core_error>> ]_vars

\* The step failed with part of the buffer rewritten over a frame published
\* before, and the relay has polled since and found CORE_WRITING.
C39_Witness ==
    /\ core_error # "none"
    /\ core_cell > 1
    /\ core_cell <= BufLen
    /\ published # ZeroFrame
    /\ taken = published
    /\ frame_buffer # published
    /\ relay_pc = "decide"
    /\ relay_status = STATUS_CORE_WRITING

\* C37: the frames read_frame_into returns are the frames the core
\* published with FRAME_READY, in the same order, each exactly once: at most
\* one published frame is unread at any time and none is returned twice;
\* the core publishes, and writes the buffer, only when nothing is unread;
\* an unread frame stays in frame_buffer as published; every return hands
\* out the one unread frame, and the poller hands it on before it polls
\* again.
C37_FramesReadOnceInOrder ==
    /\ [](/\ unread \in {0, 1}
          /\ core_pc = "write" => unread = 0
          /\ unread = 1 => frame_buffer = published)
    /\ [][ /\ unread' > unread =>
                /\ unread = 0
                /\ core_pc = "write"
                /\ published' = frame_buffer
                /\ status_flag' = STATUS_FRAME_READY
           /\ unread' < unread =>
                /\ unread = 1
                /\ relay_pc' = "got"
                /\ buffer' = published
                /\ buffer' = buffer
           /\ (published' # published \/ frame_buffer' # frame_buffer) =>
                unread = 0
           /\ (relay_pc = "got" /\ relay_pc' # "got") =>
                (relay_pc' = "poll" /\ buffer' = buffer) ]_vars

\* Two frames that differ have been published and returned one after the
\* other, and the core has published a third that the relay has not read.
C37_Witness ==
    /\ relay_pc = "got"
    /\ buffer = taken
    /\ buffer # ZeroFrame
    /\ unread = 1
    /\ published # buffer
    /\ status_flag = STATUS_FRAME_READY

\* The core process is stopped from outside (a signal; run installs no
\* handler and nothing runs on the way out), so that it can be started
\* again. Its locals go with it; the region stays as it is. The stops
\* followed here are those that come while the relay is inside
\* read_frame_into's copy.
CoreKill ==
    /\ core_pc \notin {"down", "exited"}
    /\ relay_pc = "copy"
    /\ UNCHANGED <<procVars, busVars, core_error, unread>>
    /\ core_pc' = "exited"
    /\ core_input' = 0
    /\ core_status' = STATUS_IDLE
    /\ core_cell' = 1
    /\ UNCHANGED <<status_flag, input_flags, frame_buffer, relay_pc,
                   relay_status, relay_cell, buffer, last_store, published,
                   taken>>

\* Every start order, and a core that is stopped and started again while
\* the relay runs.
NextRestart == NextBoot \/ CoreKill

SpecRestart == InitBoot /\ [][NextRestart]_vars

\* C38: under every start order of the relay and the core, restarts
\* included, the start-up stores (ShmHost::new: status_flag = IDLE,
\* input_flags = 0; run: status_flag = IDLE) are never made while the other
\* process is in its buffer-touching state, and the core never writes
\* frame_buffer while the relay copies it.
C38_StartupStoresKeepExclusion ==
    /\ [](~(core_pc = "write" /\ relay_pc = "copy"))
    /\ [][ /\ (core_pc = "init" /\ core_pc' = "top") =>
                ~(relay_pc = "copy" /\ status_flag = STATUS_SERVER_READING)
           /\ (relay_pc = "down" /\ relay_pc' = "poll") =>
                ~(core_pc = "write" /\ status_flag = STATUS_CORE_WRITING)
         ]_vars

(***************************************************************************)
(* The handoff over time: both loops run and neither is starved.           *)
(***************************************************************************)
\* The steps of run with core.update returning Ok every time
CoreRuns ==
    \/ CoreInit
    \/ CoreReadInput
    \/ CoreLoadStatus
    \/ CoreClaim
    \/ CoreUpdateWrite
    \/ CorePublish
    \/ CoreSkip
    \/ CorePace

\* The steps of the SHM polling thread
RelayPolls ==
    \/ RelayLoad
    \/ RelayMark
    \/ RelayCopy
    \/ RelayRelease
    \/ RelayHandOn
    \/ RelayIdle

NextLive == CoreRuns \/ RelayPolls \/ WriteInputs

\* Both loops are threads of their own process that sleep for a bounded time
\* (the core's frame pacing, the poller's 500 us) and are run again by the
\* scheduler: a loop that can take a step takes one. The event loop writes
\* inputs when a viewer sends some, which it need not.
SpecLive ==
    /\ Init
    /\ [][NextLive]_vars
    /\ WF_vars(CoreRuns)
    /\ WF_vars(RelayPolls)

\* C36: with both loops running and scheduled fairly, without a crash or an
\* emulator error, every FRAME_READY is followed by IDLE and every IDLE by a
\* new FRAME_READY; frames are published and returned again and again.
C36_HandoffKeepsGoing ==
    /\ (status_flag = STATUS_FRAME_READY) ~> (status_flag = STATUS_IDLE)
    /\ (status_flag = STATUS_IDLE) ~> (status_flag = STATUS_FRAME_READY)
    /\ []<>(status_flag = STATUS_FRAME_READY /\ unread = 1)
    /\ []<>(relay_pc = "got" /\ unread = 0)

\* The relay has returned one frame and the core has published the next,
\* another one, on a status the relay had set back to IDLE.
C36_Witness ==
    /\ status_flag = STATUS_FRAME_READY
    /\ last_store.by = "core"
    /\ last_store.from = STATUS_CORE_WRITING
    /\ relay_pc = "poll"
    /\ buffer = taken
    /\ buffer # ZeroFrame
    /\ published # taken
    /\ core_pc = "pace"

====
